---- MODULE Spec2Model ----
(***************************************************************************)
(* Model of the declarative-file parsing engine of HOI4GFXManager          *)
(* (src/gui_previewer.py): the brace-matching block extractor, the         *)
(* property extractors, HOI4GUIParser, ScriptedGUIParser and the merge of  *)
(* scripted-GUI definitions onto parsed GUI elements.                      *)
(* It also covers the usage analyzer of src/main.py: the definition table  *)
(* built by GFXManager.scan_gfx_files and the steps of AnalysisWorker.run,  *)
(* with asset names as sequences of pieces so that prefix, replace and      *)
(* substring tests are computed on their structure.                        *)
(*                                                                         *)
(* Text is modelled as a sequence of lexemes.  A lexeme is the smallest    *)
(* piece of text the regular expressions of the source treat as a unit:    *)
(*   open   `tag = {'          (the opening pattern  tag\s*=\s*\{ )        *)
(*   lb     `{'                 a bare opening brace                       *)
(*   rb     `}'                 a closing brace                            *)
(*   quoted `key = "s"'         a quoted scalar                            *)
(*   bare   `key = s'           an unquoted scalar                         *)
(*   pos    `position = { x = X y = Y }',  posbare `position = { X Y }'    *)
(*   size   `size = { width = W height = H }',  sizebare `size = { W H }'  *)
(*   word   any other brace-free text                                      *)
(*   hash   the comment sign,  nl  the end of a line                       *)
(* Lexemes are separated by white space.                                   *)
(***************************************************************************)
EXTENDS Integers, Sequences, FiniteSets, TLC

VARIABLES
    \* the block extractors as pure functions
    content,            \* text handed to the block extractors
    called,             \* which extractor has run on content
    blocks,             \* result of HOI4GUIParser._extract_block_content
    simple_blocks,      \* result of ScriptedGUIParser._extract_block_content_simple
    background_sprite,  \* result of HOI4GUIParser._extract_background_sprite
    property_value,     \* result of HOI4GUIParser._extract_property
    scripted_property_value,  \* result of ScriptedGUIParser._extract_property
    extracted_definitions,  \* result of ScriptedGUIParser._extract_gui_definitions
    container_element,      \* result of HOI4GUIParser._parse_container_window_element
    \* one HOI4GUIParser instance and the file it is given
    gui_file,           \* [status, text]: the file at the path given to parse_file
    elements,           \* self.elements
    parsed_elements,    \* self.parsed_elements (created by _parse_elements)
    window_size,        \* self.window_size
    parse_errors,       \* self.parse_errors (created by parse_file)
    scripted_gui_data,  \* self.scripted_gui_data, in insertion order
    returned,           \* what the last parse_file call returned, None before it
    \* one ScriptedGUIParser instance and the file it is given
    scripted_file,          \* [status, text]: the file at the path given to parse_file
    scripted_guis,          \* self.scripted_guis
    scripted_parse_errors,  \* self.parse_errors
    scripted_returned,      \* what the last parse_file call returned, None before it
    \* the caller of HOI4GUIParser.set_scripted_gui_data
    scripted_gui_definitions,  \* the list last passed to set_scripted_gui_data, None before
    \* GUIPreviewWidget, which owns one parser of each kind, and its canvas
    current_file_path,      \* self.current_file_path: the file at that path, None before
    canvas_elements,        \* self.canvas.elements
    canvas_window_size,     \* self.canvas.window_size
    \* main.py: the main window GFXManager, its AnalysisWorker and the mod folder
    mod_files,              \* the files under mod_folder_path, in the order rglob yields them
    gfx_data,               \* GFXManager.gfx_data, the dict every AnalysisWorker is handed
    duplicate_definitions,  \* GFXManager.duplicate_definitions
    orphaned_gfx,           \* GFXManager.orphaned_gfx
    missing_definitions,    \* GFXManager.missing_definitions
    used_gfx,               \* GFXManager.used_gfx
    usage_locations,        \* GFXManager.usage_locations
    progress_bar,           \* value shown by GFXManager.progress_bar
    pc,                     \* position of AnalysisWorker.run, "none" without a worker
    results,                \* the local results of AnalysisWorker.run
    code_files,             \* the local code_files of AnalysisWorker.run
    idx,                    \* number of files the loop over code_files has finished
    emitted,                \* every signal the worker has emitted, in order
    queue,                  \* emitted signals the main thread has not yet handled
    scanning,               \* files a running scan_gfx_files has parsed, None without one
    snapshot                \* gfx_data as it was when the worker was constructed

extractVars == <<content, called, blocks, simple_blocks, background_sprite, property_value,
                 scripted_property_value, extracted_definitions, container_element>>
guiVars == <<gui_file, elements, parsed_elements, window_size, parse_errors,
             scripted_gui_data, returned>>
scriptedVars == <<scripted_file, scripted_guis, scripted_parse_errors, scripted_returned>>
widgetVars == <<current_file_path, canvas_elements, canvas_window_size>>
callerVars == <<scripted_gui_definitions, widgetVars>>
analysisVars == <<mod_files, gfx_data, duplicate_definitions, orphaned_gfx, missing_definitions,
                  used_gfx, usage_locations, progress_bar, pc, results, code_files, idx,
                  emitted, queue, scanning, snapshot>>
vars == <<extractVars, guiVars, scriptedVars, callerVars, analysisVars>>

----------------------------------------------------------------------------
(* Lexemes *)

Tok(k, key, s, x, y) == [k |-> k, key |-> key, s |-> s, x |-> x, y |-> y]
Open(tag)      == Tok("open", tag, "", 0, 0)          \* tag = {
LB             == Tok("lb", "", "", 0, 0)             \* {
RB             == Tok("rb", "", "", 0, 0)             \* }
Word(s)        == Tok("word", "", s, 0, 0)            \* s
Quoted(key, s) == Tok("quoted", key, s, 0, 0)         \* key = "s"
Bare(key, s)   == Tok("bare", key, s, 0, 0)           \* key = s
Pos(x, y)      == Tok("pos", "position", "", x, y)    \* position = { x = X y = Y }
PosBare(x, y)  == Tok("posbare", "position", "", x, y) \* position = { X Y }
SizeT(w, h)    == Tok("size", "size", "", w, h)       \* size = { width = W height = H }
SizeBare(w, h) == Tok("sizebare", "size", "", w, h)   \* size = { W H }
Cut(key)       == Tok("cut", key, "", 0, 0)           \* key = { ... with its closing brace cut off
Hash           == Tok("hash", "", "", 0, 0)           \* the comment sign
NL             == Tok("nl", "", "", 0, 0)             \* end of line

\* Optional[T]: None, or a value
None == <<>>
Some(v) == <<v>>

\* str.lower() on the identifiers that the sources match case-insensitively
Lower(s) ==
    CASE s = "instantTextBoxType" -> "instanttextboxtype"
      [] s = "instantTextboxType" -> "instanttextboxtype"
      [] OTHER -> s

\* does the lexeme t match the opening pattern  block_type\s*=\s*\{  ?
OpensBlock(t, block_type, ignore_case) ==
    /\ t.k = "open"
    /\ IF ignore_case THEN Lower(t.key) = Lower(block_type) ELSE t.key = block_type

\* re.search(pattern, content[start_pos:]): index of the first match, 0 if none
RECURSIVE SearchOpen(_, _, _, _)
SearchOpen(text, block_type, ignore_case, start_pos) ==
    IF start_pos > Len(text) THEN 0
    ELSE IF OpensBlock(text[start_pos], block_type, ignore_case) THEN start_pos
    ELSE SearchOpen(text, block_type, ignore_case, start_pos + 1)

\* change of brace_count over one lexeme (pos and size hold a balanced pair)
BraceDelta(t) ==
    IF t.k \in {"open", "lb", "cut"} THEN 1 ELSE IF t.k = "rb" THEN -1 ELSE 0

\* a plausible slip: the scan stops at the first closing brace, nesting ignored
RECURSIVE ScanCloseFlat(_, _, _)
ScanCloseFlat(text, pos, brace_count) ==
    IF pos > Len(text) THEN 0
    ELSE IF text[pos].k = "rb" THEN pos
    ELSE ScanCloseFlat(text, pos + 1, brace_count)

\* the inner while loop: scan from pos with brace_count > 0; the index of the
\* lexeme at which brace_count reaches 0, or 0 when the text ends first
RECURSIVE ScanClose(_, _, _)
ScanClose(text, pos, brace_count) ==
    IF pos > Len(text) THEN 0
    ELSE LET c == brace_count + BraceDelta(text[pos])
         IN  IF c = 0 THEN pos ELSE ScanClose(text, pos + 1, c)

\* start_pos after one iteration of the outer while loop that found an opening
\* at or after start_pos: past the closing brace, or the end of the text
CursorAfter(text, block_type, ignore_case, start_pos) ==
    LET close == ScanClose(text, SearchOpen(text, block_type, ignore_case, start_pos) + 1, 1)
    IN  IF close = 0 THEN Len(text) + 1 ELSE close + 1

\* a plausible slip: after an unclosed block the search resumes behind its opening
RECURSIVE ExtractLoopResuming(_, _, _, _)
ExtractLoopResuming(text, block_type, ignore_case, start_pos) ==
    LET block_start == SearchOpen(text, block_type, ignore_case, start_pos)
    IN  IF block_start = 0 THEN <<>>
        ELSE LET close == ScanClose(text, block_start + 1, 1)
             IN  IF close = 0
                 THEN ExtractLoopResuming(text, block_type, ignore_case, block_start + 1)
                 ELSE <<SubSeq(text, block_start + 1, close - 1)>>
                      \o ExtractLoopResuming(text, block_type, ignore_case, close + 1)

\* the outer while loop of both extractors
RECURSIVE ExtractLoop(_, _, _, _)
ExtractLoop(text, block_type, ignore_case, start_pos) ==
    LET block_start == SearchOpen(text, block_type, ignore_case, start_pos)
    IN  IF block_start = 0 THEN <<>>
        ELSE LET close == ScanClose(text, block_start + 1, 1)
             IN  IF close = 0 THEN <<>>
                 ELSE <<SubSeq(text, block_start + 1, close - 1)>>
                      \o ExtractLoop(text, block_type, ignore_case, close + 1)

\* HOI4GUIParser._extract_block_content; a block_type starting with (?i) is
\* passed here as ignore_case = TRUE
_extract_block_content(text, block_type, ignore_case) ==
    ExtractLoop(text, block_type, ignore_case, 1)

\* ScriptedGUIParser._extract_block_content_simple (always case-sensitive)
_extract_block_content_simple(text, block_type) ==
    ExtractLoop(text, block_type, FALSE, 1)

----------------------------------------------------------------------------
(* Property extractors of HOI4GUIParser *)

\* index of the first lexeme of text that satisfies P, 0 if there is none
FirstIdx(text, P(_)) ==
    IF \E i \in 1..Len(text) : P(text[i])
    THEN CHOOSE i \in 1..Len(text) : P(text[i]) /\ \A j \in 1..(i - 1) : ~P(text[j])
    ELSE 0

\* identifiers of the model of which another identifier is a proper suffix
ProperSuffixes ==
    {<<"window_name", "name">>, <<"parent_window_name", "name">>,
     <<"parent_window_name", "window_name">>,
     <<"ok_button_visible", "visible">>, <<"icon_a_visible", "visible">>}

\* the patterns  prop_name\s*=  are not anchored on the left
KeyMatches(key, prop_name) == key = prop_name \/ <<key, prop_name>> \in ProperSuffixes

\* str.strip() on the values of the model
Strip(s) == IF s = " " THEN "" ELSE s

\* Python truthiness of an Optional[str]
Truthy(opt) == opt # None /\ opt[1] # ""

HasOpenBrace(t) == t.k \in {"open", "lb", "cut", "pos", "posbare", "size", "sizebare"}
HasCloseBrace(t) == t.k \in {"rb", "pos", "posbare", "size", "sizebare"}
BraceFree(t) == ~HasOpenBrace(t) /\ ~HasCloseBrace(t)

\* text matched by  ["']([^"'}]+)["']  after  key = : a non-empty quoted value
QuotedValue(t) == IF t.k = "quoted" /\ t.s # "" THEN Some(t.s) ELSE None

\* the value s of the model written between double quotes
InQuotes(s) ==
    CASE s = "" -> "\"\""
      [] s = "main" -> "\"main\""
      [] s = "icon_a" -> "\"icon_a\""
      [] s = "ok_button" -> "\"ok_button\""
      [] s = "c" -> "\"c\""
      [] s = "w" -> "\"w\""
      [] s = "A" -> "\"A\""
      [] s = "B" -> "\"B\""
      [] s = "C" -> "\"C\""
      [] OTHER -> "\"..\""

\* the values of the model that hold white space
HasBlank(s) == s \in {" ", "a b"}

\* the run of characters other than white space that the quoted value s starts
\* with, its opening quote included
QuotedToken(s) ==
    CASE s = " " -> "\""
      [] s = "a b" -> "\"a"
      [] OTHER -> InQuotes(s)

\* text matched by  ([^\s}]+)  after  key = : the run up to the next white space
TokenValue(t) ==
    CASE t.k = "bare" -> Some(t.s)
      [] t.k = "quoted" -> Some(QuotedToken(t.s))
      [] HasOpenBrace(t) /\ t.k # "lb" -> Some("{")
      [] OTHER -> None

\* text captured by  ["']?([^"'}\s]+)["']?  after  key =
LooseValue(t) ==
    CASE t.k = "bare" -> Some(t.s)
      [] t.k = "quoted" -> IF t.s \in {"", " "} THEN None
                           ELSE IF t.s = "a b" THEN Some("a") ELSE Some(t.s)
      [] HasOpenBrace(t) /\ t.k # "lb" -> Some("{")
      [] OTHER -> None

\* HOI4GUIParser._extract_property: quoted form first, then the bare token
_extract_property(text, prop_name) ==
    LET q == FirstIdx(text, LAMBDA t : KeyMatches(t.key, prop_name) /\ QuotedValue(t) # None)
        b == FirstIdx(text, LAMBDA t : KeyMatches(t.key, prop_name) /\ TokenValue(t) # None)
    IN  IF q # 0 THEN Some(Strip(QuotedValue(text[q])[1]))
        ELSE IF b # 0 THEN Some(Strip(TokenValue(text[b])[1]))
        ELSE None

\* background = { key = X ... }  with key the first thing inside the braces
BackgroundBlockForm(text, key) ==
    LET hit(i) == /\ text[i].k = "open"
                  /\ KeyMatches(text[i].key, "background")
                  /\ i + 1 <= Len(text)
                  /\ text[i + 1].key = key
                  /\ LooseValue(text[i + 1]) # None
                  /\ \E j \in (i + 2)..Len(text) : HasCloseBrace(text[j])
    IN  IF \E i \in 1..Len(text) : hit(i)
        THEN LET i == CHOOSE i \in 1..Len(text) : hit(i) /\ \A j \in 1..(i - 1) : ~hit(j)
             IN  LooseValue(text[i + 1])
        ELSE None

\* bare  background = X
BackgroundBareForm(text) ==
    LET i == FirstIdx(text, LAMBDA t : KeyMatches(t.key, "background") /\ LooseValue(t) # None)
    IN  IF i # 0 THEN LooseValue(text[i]) ELSE None

\* a plausible slip: the quadTextureSprite form is tried before the spriteType form
_extract_background_sprite_quad_first(text) ==
    LET f1 == BackgroundBlockForm(text, "spriteType")
        f2 == BackgroundBlockForm(text, "quadTextureSprite")
    IN  IF f2 # None THEN f2 ELSE IF f1 # None THEN f1 ELSE BackgroundBareForm(text)

\* HOI4GUIParser._extract_background_sprite
_extract_background_sprite(text) ==
    LET f1 == BackgroundBlockForm(text, "spriteType")
        f2 == BackgroundBlockForm(text, "quadTextureSprite")
    IN  IF f1 # None THEN f1 ELSE IF f2 # None THEN f2 ELSE BackgroundBareForm(text)

\* HOI4GUIParser._extract_position: named form, then bare form, then Position()
_extract_position(text) ==
    LET n == FirstIdx(text, LAMBDA t : t.k = "pos")
        b == FirstIdx(text, LAMBDA t : t.k = "posbare")
    IN  IF n # 0 THEN <<text[n].x, text[n].y>>
        ELSE IF b # 0 THEN <<text[b].x, text[b].y>>
        ELSE <<0, 0>>

\* a plausible slip: only the bare form  size = { W H }  is recognised
_extract_size_bare_only(text) ==
    LET b == FirstIdx(text, LAMBDA t : t.k = "sizebare")
    IN  IF b # 0 THEN Some(<<text[b].x, text[b].y>>) ELSE None

\* HOI4GUIParser._extract_size: named form, then bare form, then None
_extract_size(text) ==
    LET n == FirstIdx(text, LAMBDA t : t.k = "size")
        b == FirstIdx(text, LAMBDA t : t.k = "sizebare")
    IN  IF n # 0 THEN Some(<<text[n].x, text[n].y>>)
        ELSE IF b # 0 THEN Some(<<text[b].x, text[b].y>>)
        ELSE None

----------------------------------------------------------------------------
(* Element parsers of HOI4GUIParser.  Of the fields of GUIElement the model  *)
(* keeps the ones the merge and the deduplication read or write.             *)

GUIElement(name, element_type, position, size, sprite_type) ==
    [name |-> name, element_type |-> element_type, position |-> position,
     size |-> size, sprite_type |-> sprite_type,
     visible_condition |-> None, click_effect |-> None, is_dynamic |-> FALSE,
     properties |-> None, scripted_data |-> None]

\* a plausible slip: the check of name is left out
NamedUnchecked(name, element_type, position, size, sprite_type) ==
    Some(GUIElement(IF name = None THEN "" ELSE name[1], element_type, position, size,
                    sprite_type))

\* the result of an element parser: Some(element) when name is truthy
Named(name, element_type, position, size, sprite_type) ==
    IF Truthy(name)
    THEN Some(GUIElement(name[1], element_type, position, size, sprite_type))
    ELSE None

_parse_container_window_element(text) ==
    Named(_extract_property(text, "name"), "containerWindowType",
          _extract_position(text), _extract_size(text), _extract_background_sprite(text))

\* bg_pattern of _parse_window_element: background = { ... spriteType = X ... },
\* no brace between the braces of background; the last spriteType is captured
WindowBackgroundSprite(text) ==
    LET isSprite(m) == KeyMatches(text[m].key, "spriteType") /\ LooseValue(text[m]) # None
        hit(i, m) == /\ text[i].k = "open"
                     /\ KeyMatches(text[i].key, "background")
                     /\ i < m
                     /\ isSprite(m)
                     /\ \A n \in (i + 1)..m : BraceFree(text[n])
                     /\ \E j \in (m + 1)..Len(text) :
                           /\ text[j].k = "rb"
                           /\ \A n \in (m + 1)..(j - 1) : BraceFree(text[n])
                           /\ \A n \in (m + 1)..(j - 1) : ~isSprite(n)
        any(i) == \E m \in 1..Len(text) : hit(i, m)
    IN  IF \E i \in 1..Len(text) : any(i)
        THEN LET i == CHOOSE i \in 1..Len(text) : any(i) /\ \A j \in 1..(i - 1) : ~any(j)
                 m == CHOOSE m \in 1..Len(text) : hit(i, m)
             IN  Some(LooseValue(text[m])[1])
        ELSE None

_parse_window_element(text) ==
    Named(_extract_property(text, "name"), "windowType",
          _extract_position(text), _extract_size(text), WindowBackgroundSprite(text))

_parse_icon_element(text) ==
    LET sprite == _extract_property(text, "spriteType")
    IN  Named(_extract_property(text, "name"), "iconType", _extract_position(text), None,
              IF Truthy(sprite) THEN sprite ELSE _extract_property(text, "quadTextureSprite"))

\* sprite_patterns of _parse_button_element: quadTextureSprite, then spriteType
ButtonSprite(text) ==
    LET q == FirstIdx(text, LAMBDA t : KeyMatches(t.key, "quadTextureSprite") /\ LooseValue(t) # None)
        p == FirstIdx(text, LAMBDA t : KeyMatches(t.key, "spriteType") /\ LooseValue(t) # None)
    IN  IF q # 0 THEN LooseValue(text[q])
        ELSE IF p # 0 THEN LooseValue(text[p])
        ELSE None

_parse_button_element(text) ==
    Named(_extract_property(text, "name"), "buttonType",
          _extract_position(text), _extract_size(text), ButtonSprite(text))

_parse_text_box_element(text) ==
    Named(_extract_property(text, "name"), "instantTextBoxType",
          _extract_position(text), None, None)

_parse_checkbox_element(text) ==
    Named(_extract_property(text, "name"), "checkboxType",
          _extract_position(text), Some(<<24, 24>>), _extract_property(text, "spriteType"))

\* size or Size(w, h)
OrSize(size, w, h) == IF size # None THEN size ELSE Some(<<w, h>>)

_parse_scrollbar_element(text) ==
    Named(_extract_property(text, "name"), "scrollbarType",
          _extract_position(text), OrSize(_extract_size(text), 20, 200), None)

_parse_gridbox_element(text) ==
    Named(_extract_property(text, "name"), "gridBoxType",
          _extract_position(text), OrSize(_extract_size(text), 300, 200), None)

_parse_listbox_element(text) ==
    Named(_extract_property(text, "name"), "listboxType",
          _extract_position(text), OrSize(_extract_size(text), 200, 100), None)

_parse_editbox_element(text) ==
    Named(_extract_property(text, "name"), "editboxType",
          _extract_position(text), OrSize(_extract_size(text), 150, 25), None)

----------------------------------------------------------------------------
(* HOI4GUIParser._parse_elements.  The parse state st holds the fields the   *)
(* loops update: elements, parsed_elements and window_size.                  *)

_get_element_key(element) ==
    <<element.element_type, element.name, element.position[1], element.position[2]>>

\* a plausible slip: the guard never reports a duplicate
_is_duplicate_never(st, element) == FALSE

_is_duplicate(st, element) == _get_element_key(element) \in st.parsed_elements

\* self.elements.append(element); self._mark_as_parsed(element)
AppendMarked(st, element) ==
    [st EXCEPT !.elements = Append(@, element),
               !.parsed_elements = @ \cup {_get_element_key(element)}]

\* a plausible slip: every sized container or window sets the canvas size
SetWindowSizeAlways(st, element) ==
    IF element.size # None THEN [st EXCEPT !.window_size = element.size[1]] ELSE st

\* if len(self.elements) == 1 and element.size: self.window_size = element.size
SetWindowSize(st, element) ==
    IF Len(st.elements) = 1 /\ element.size # None
    THEN [st EXCEPT !.window_size = element.size[1]]
    ELSE st

\* for x in found: if element and not self._is_duplicate(element): append, mark
RECURSIVE AddUnique(_, _, _)
AddUnique(st, found, k) ==
    IF k > Len(found) THEN st
    ELSE IF found[k] # None /\ ~_is_duplicate(st, found[k][1])
         THEN AddUnique(AppendMarked(st, found[k][1]), found, k + 1)
         ELSE AddUnique(st, found, k + 1)

RECURSIVE _parse_nested_elements(_, _)
RECURSIVE NestedContainerLoop(_, _, _)

\* the loop over nested_containers of _parse_nested_elements
NestedContainerLoop(st, nested_containers, k) ==
    IF k > Len(nested_containers) THEN st
    ELSE LET element == _parse_container_window_element(nested_containers[k])
         IN  IF element # None /\ ~_is_duplicate(st, element[1])
             THEN NestedContainerLoop(
                      _parse_nested_elements(AppendMarked(st, element[1]), nested_containers[k]),
                      nested_containers, k + 1)
             ELSE NestedContainerLoop(st, nested_containers, k + 1)

_parse_nested_elements(st, text) ==
    LET icons == _extract_block_content(text, "iconType", FALSE)
        buttons == _extract_block_content(text, "buttonType", FALSE)
        textboxes == _extract_block_content(text, "instantTextboxType", TRUE)
        st1 == NestedContainerLoop(st, _extract_block_content(text, "containerWindowType", FALSE), 1)
        st2 == AddUnique(st1, [k \in 1..Len(icons) |-> _parse_icon_element(icons[k])], 1)
        st3 == AddUnique(st2, [k \in 1..Len(buttons) |-> _parse_button_element(buttons[k])], 1)
    IN  AddUnique(st3, [k \in 1..Len(textboxes) |-> _parse_text_box_element(textboxes[k])], 1)

\* the loop over containers of _parse_container_window_types
RECURSIVE ContainerLoop(_, _, _)
ContainerLoop(st, containers, k) ==
    IF k > Len(containers) THEN st
    ELSE LET element == _parse_container_window_element(containers[k])
             st1 == IF element # None /\ ~_is_duplicate(st, element[1])
                    THEN SetWindowSize(AppendMarked(st, element[1]), element[1])
                    ELSE st
         IN  ContainerLoop(_parse_nested_elements(st1, containers[k]), containers, k + 1)

_parse_container_window_types(st, text) ==
    ContainerLoop(st, _extract_block_content(text, "containerWindowType", FALSE), 1)

\* the pattern  tag\s*=\s*\{([^{}]*(?:\{[^{}]*\}[^{}]*)*)\}  from the lexeme after
\* the opening one: the index of the closing brace, 0 if the pattern fails
\* (a brace inside a nested pair, or the end of the text)
RECURSIVE OneLevelClose(_, _, _)
OneLevelClose(text, pos, inner) ==
    IF pos > Len(text) THEN 0
    ELSE LET t == text[pos]
         IN  CASE t.k = "rb" -> IF inner THEN OneLevelClose(text, pos + 1, FALSE) ELSE pos
               [] t.k \in {"open", "lb", "cut"} ->
                      IF inner THEN 0 ELSE OneLevelClose(text, pos + 1, TRUE)
               [] HasCloseBrace(t) /\ t.k # "rb" ->
                      IF inner THEN 0 ELSE OneLevelClose(text, pos + 1, inner)
               [] OTHER -> OneLevelClose(text, pos + 1, inner)

\* re.findall of that pattern: the captured groups, left to right, not overlapping
RECURSIVE FindAllOneLevel(_, _, _)
FindAllOneLevel(text, tag, start_pos) ==
    LET i == SearchOpen(text, tag, FALSE, start_pos)
    IN  IF i = 0 THEN <<>>
        ELSE LET close == OneLevelClose(text, i + 1, FALSE)
             IN  IF close = 0 THEN FindAllOneLevel(text, tag, i + 1)
                 ELSE <<SubSeq(text, i + 1, close - 1)>> \o FindAllOneLevel(text, tag, close + 1)

\* for match in matches: if element: self.elements.append(element)
RECURSIVE AppendAll(_, _, _)
AppendAll(st, found, k) ==
    IF k > Len(found) THEN st
    ELSE IF found[k] # None
         THEN AppendAll([st EXCEPT !.elements = Append(@, found[k][1])], found, k + 1)
         ELSE AppendAll(st, found, k + 1)

\* the loop of _parse_window_types
RECURSIVE WindowLoop(_, _, _)
WindowLoop(st, matches, k) ==
    IF k > Len(matches) THEN st
    ELSE LET element == _parse_window_element(matches[k])
         IN  IF element # None
             THEN WindowLoop(SetWindowSize([st EXCEPT !.elements = Append(@, element[1])],
                                           element[1]), matches, k + 1)
             ELSE WindowLoop(st, matches, k + 1)

_parse_window_types(st, text) == WindowLoop(st, FindAllOneLevel(text, "windowType", 1), 1)

_parse_checkbox_types(st, text) ==
    LET m == FindAllOneLevel(text, "checkboxType", 1)
    IN  AppendAll(st, [k \in 1..Len(m) |-> _parse_checkbox_element(m[k])], 1)

_parse_scrollbar_types(st, text) ==
    LET m == FindAllOneLevel(text, "scrollbarType", 1)
    IN  AppendAll(st, [k \in 1..Len(m) |-> _parse_scrollbar_element(m[k])], 1)

_parse_gridbox_types(st, text) ==
    LET m == FindAllOneLevel(text, "gridBoxType", 1)
    IN  AppendAll(st, [k \in 1..Len(m) |-> _parse_gridbox_element(m[k])], 1)

_parse_listbox_types(st, text) ==
    LET m == FindAllOneLevel(text, "listboxType", 1)
    IN  AppendAll(st, [k \in 1..Len(m) |-> _parse_listbox_element(m[k])], 1)

_parse_editbox_types(st, text) ==
    LET m == FindAllOneLevel(text, "editboxType", 1)
    IN  AppendAll(st, [k \in 1..Len(m) |-> _parse_editbox_element(m[k])], 1)

_parse_top_level_elements(st, text) ==
    _parse_editbox_types(
        _parse_listbox_types(
            _parse_gridbox_types(
                _parse_scrollbar_types(
                    _parse_checkbox_types(
                        _parse_window_types(st, text), text), text), text), text), text)

\* self.parsed_elements = set(), then the containers, then the top-level scan
_parse_elements(st, text) ==
    _parse_top_level_elements(
        _parse_container_window_types([st EXCEPT !.parsed_elements = {}], text), text)

----------------------------------------------------------------------------
(* The merge of scripted-GUI definitions onto the parsed elements *)

\* name + suffix for the element names and naming conventions of the model
Concat(name, suffix) ==
    CASE name = "ok_button" /\ suffix = "_click_enabled" -> "ok_button_click_enabled"
      [] name = "ok_button" /\ suffix = "_visible" -> "ok_button_visible"
      [] name = "ok_button" /\ suffix = "_click" -> "ok_button_click"
      [] name = "icon_a" /\ suffix = "_click_enabled" -> "icon_a_click_enabled"
      [] name = "icon_a" /\ suffix = "_visible" -> "icon_a_visible"
      [] name = "icon_a" /\ suffix = "_click" -> "icon_a_click"
      [] OTHER -> "(no key of the model)"

\* a dict as a function; d.update({key: value})
DictSet(d, key, value) ==
    [k \in DOMAIN d \cup {key} |-> IF k = key THEN value ELSE d[k]]
DictUpdate(d, e) ==
    [k \in DOMAIN d \cup DOMAIN e |-> IF k \in DOMAIN e THEN e[k] ELSE d[k]]
EmptyDict == [k \in {} |-> None]

\* HOI4GUIParser._create_scripted_data_dict, for the metadata field the model keeps
_create_scripted_data_dict(scripted_gui) ==
    IF Truthy(scripted_gui.dirty) THEN DictSet(EmptyDict, "dirty", scripted_gui.dirty[1])
    ELSE EmptyDict

\* self.scripted_gui_data.get(name): index into the sequence, 0 if absent
DataIndex(data, name) ==
    IF \E i \in 1..Len(data) : data[i].window_name = name
    THEN CHOOSE i \in 1..Len(data) : data[i].window_name = name
    ELSE 0

\* the containerWindowType branch of _apply_scripted_gui_data
MergeContainer(data, element) ==
    LET i == DataIndex(data, element.name)
        e1 == IF i = 0 THEN element
              ELSE [element EXCEPT
                      !.visible_condition = data[i].visible_condition,
                      !.is_dynamic = TRUE,
                      !.scripted_data = Some(_create_scripted_data_dict(data[i])),
                      !.properties =
                          IF data[i].properties # None /\ DOMAIN data[i].properties[1] # {}
                          THEN Some(DictUpdate(IF @ = None THEN EmptyDict ELSE @[1],
                                               data[i].properties[1]))
                          ELSE @]
        j == FirstIdx(data, LAMBDA d : d.window_name = element.name)
    IN  IF j = 0 THEN e1
        ELSE [e1 EXCEPT !.visible_condition = data[j].visible_condition,
                        !.is_dynamic = TRUE,
                        !.scripted_data = Some(_create_scripted_data_dict(data[j]))]

\* first of the trigger keys  name_click_enabled, name_visible  present in triggers
TriggerHit(scripted_gui, name) ==
    IF scripted_gui.triggers = None THEN None
    ELSE IF Concat(name, "_click_enabled") \in DOMAIN scripted_gui.triggers[1]
         THEN Some(scripted_gui.triggers[1][Concat(name, "_click_enabled")])
    ELSE IF Concat(name, "_visible") \in DOMAIN scripted_gui.triggers[1]
         THEN Some(scripted_gui.triggers[1][Concat(name, "_visible")])
    ELSE None

\* the effect key  name_click
EffectHit(scripted_gui, name) ==
    IF scripted_gui.effects # None /\ Concat(name, "_click") \in DOMAIN scripted_gui.effects[1]
    THEN Some(scripted_gui.effects[1][Concat(name, "_click")])
    ELSE None

\* a plausible slip: the effect is looked up although a trigger has matched
MergeOneBoth(scripted_gui, element) ==
    LET t == TriggerHit(scripted_gui, element.name)
        c == EffectHit(scripted_gui, element.name)
        e1 == IF t # None THEN [element EXCEPT !.visible_condition = t] ELSE element
        e2 == IF c # None THEN [e1 EXCEPT !.click_effect = c] ELSE e1
    IN  IF t # None \/ c # None
        THEN [e2 EXCEPT !.is_dynamic = TRUE,
                        !.scripted_data = Some(_create_scripted_data_dict(scripted_gui))]
        ELSE element

\* one definition applied to a button, icon or text box; unchanged when no key matches
MergeOne(scripted_gui, element) ==
    LET t == TriggerHit(scripted_gui, element.name)
        c == EffectHit(scripted_gui, element.name)
    IN  IF t # None
        THEN [element EXCEPT !.visible_condition = t, !.is_dynamic = TRUE,
                             !.scripted_data = Some(_create_scripted_data_dict(scripted_gui))]
        ELSE IF c # None
        THEN [element EXCEPT !.click_effect = c, !.is_dynamic = TRUE,
                             !.scripted_data = Some(_create_scripted_data_dict(scripted_gui))]
        ELSE element

Matches(scripted_gui, element) ==
    TriggerHit(scripted_gui, element.name) # None \/ EffectHit(scripted_gui, element.name) # None

\* a plausible slip: the search does not stop, the last matching definition wins
MergeLeafLast(data, element) ==
    LET hits == {i \in 1..Len(data) : Matches(data[i], element)}
    IN  IF hits = {} THEN element
        ELSE MergeOne(data[CHOOSE i \in hits : \A j \in hits : j <= i], element)

\* the buttonType / iconType / instantTextBoxType branch: the first definition
\* in index order that produces a match is applied, then the search stops
MergeLeaf(data, element) ==
    LET i == FirstIdx(data, LAMBDA d : Matches(d, element))
    IN  IF i = 0 THEN element ELSE MergeOne(data[i], element)

\* a plausible slip: every element that is not a container takes the triggers and effects
MergeElementAnyType(data, element) ==
    IF element.element_type = "containerWindowType" THEN MergeContainer(data, element)
    ELSE MergeLeaf(data, element)

MergeElement(data, element) ==
    IF element.element_type = "containerWindowType" THEN MergeContainer(data, element)
    ELSE IF element.element_type \in {"buttonType", "iconType", "instantTextBoxType"}
         THEN MergeLeaf(data, element)
    ELSE element

\* HOI4GUIParser._apply_scripted_gui_data
_apply_scripted_gui_data(data, elems) ==
    IF data = <<>> THEN elems
    ELSE [k \in 1..Len(elems) |-> MergeElement(data, elems[k])]

----------------------------------------------------------------------------
(* ScriptedGUIParser.  Its patterns tell a line end from other white space,  *)
(* so the text keeps its nl lexemes.  A text value (a condition, an effect)  *)
(* is the sequence of its lexemes.                                           *)

\* str.strip() on a text: leading and trailing line ends are dropped
RECURSIVE StripNL(_)
StripNL(text) ==
    IF text = <<>> THEN text
    ELSE IF Head(text).k = "nl" THEN StripNL(Tail(text))
    ELSE IF text[Len(text)].k = "nl" THEN StripNL(SubSeq(text, 1, Len(text) - 1))
    ELSE text

\* definitions[gui_name] = block_content on a dict kept in insertion order
PutDefinition(definitions, gui_name, block_content) ==
    IF \E i \in 1..Len(definitions) : definitions[i].name = gui_name
    THEN [i \in 1..Len(definitions) |->
             IF definitions[i].name = gui_name
             THEN [name |-> gui_name, content |-> block_content]
             ELSE definitions[i]]
    ELSE Append(definitions, [name |-> gui_name, content |-> block_content])

\* the while loop of _extract_gui_definitions: the pattern (\w+)\s*=\s*\{ is
\* matched by every open lexeme
RECURSIVE DefinitionLoop(_, _, _)
DefinitionLoop(text, start_pos, definitions) ==
    LET found == {i \in start_pos..Len(text) : text[i].k = "open"}
    IN  IF found = {} THEN definitions
        ELSE LET block_start == CHOOSE i \in found : \A j \in found : i <= j
                 close == ScanClose(text, block_start + 1, 1)
             IN  IF close = 0 THEN definitions
                 ELSE DefinitionLoop(text, close + 1,
                          PutDefinition(definitions, text[block_start].key,
                                        SubSeq(text, block_start + 1, close - 1)))

\* ScriptedGUIParser._extract_gui_definitions: identifier -> block content
_extract_gui_definitions(text) == DefinitionLoop(text, 1, <<>>)

\* the text matched by ([^\s}]+) after  prop_name = , quotes removed when the
\* match starts and ends with one
UnquotedValue(t) ==
    CASE t.k = "quoted" -> IF ~HasBlank(t.s) THEN t.s
                           ELSE IF QuotedToken(t.s) = "\"" THEN ""
                           ELSE QuotedToken(t.s)
      [] t.k = "open" -> "{"
      [] OTHER -> t.s

\* ScriptedGUIParser._extract_property: the pattern is anchored, the property
\* has to be the first thing on its line (or in the text).  The second
\* pattern of the source matches nothing the first one does not.
ScriptedGUIParser_extract_property(text, prop_name) ==
    LET found == {i \in 1..Len(text) :
                     /\ text[i].k \in {"quoted", "bare", "open"}
                     /\ text[i].key = prop_name
                     /\ (i = 1 \/ text[i - 1].k = "nl")}
    IN  IF found = {} THEN None
        ELSE Some(UnquotedValue(text[CHOOSE i \in found : \A j \in found : i <= j]))

\* ScriptedGUIParser._extract_block_property: prop_name\s*=\s*\{([^}]*)\}, not
\* anchored, up to the first closing brace
_extract_block_property(text, prop_name) ==
    LET i == FirstIdx(text, LAMBDA t : t.k = "open" /\ KeyMatches(t.key, prop_name))
        closes == IF i = 0 THEN {} ELSE {j \in (i + 1)..Len(text) : HasCloseBrace(text[j])}
    IN  IF closes = {} THEN None
        ELSE Some(StripNL(SubSeq(text, i + 1, (CHOOSE j \in closes : \A n \in closes : j <= n) - 1)))

----------------------------------------------------------------------------
(* HOI4GUIParser.parse_file *)

\* _remove_comments: on every line, the text from the first # on is dropped
RECURSIVE RemoveFrom(_, _, _)
RemoveFrom(text, k, in_comment) ==
    IF k > Len(text) THEN <<>>
    ELSE IF text[k].k = "nl" THEN <<text[k]>> \o RemoveFrom(text, k + 1, FALSE)
    ELSE IF in_comment \/ text[k].k = "hash" THEN RemoveFrom(text, k + 1, TRUE)
    ELSE <<text[k]>> \o RemoveFrom(text, k + 1, FALSE)

_remove_comments(text) == RemoveFrom(text, 1, FALSE)

\* every pattern of HOI4GUIParser takes a line end for white space
Unlines(text) == SelectSeq(text, LAMBDA t : t.k # "nl")

\* not content.strip()
IsBlank(text) == \A k \in 1..Len(text) : text[k].k = "nl"

\* re.search(root\s*=\s*\{(.*)\}, content, re.DOTALL).group(1): from the first
\* root = {  to the last closing brace of the text; None without a match
RootBlock(text, root) ==
    LET i == FirstIdx(text, LAMBDA t : t.k = "open" /\ KeyMatches(t.key, root))
        closes == IF i = 0 THEN {} ELSE {j \in (i + 1)..Len(text) : HasCloseBrace(text[j])}
    IN  IF closes = {} THEN None
        ELSE LET j == CHOOSE j \in closes : \A n \in closes : n <= j
             IN  Some(SubSeq(text, i + 1, j - 1)
                      \o (IF text[j].k = "rb" THEN <<>> ELSE <<Cut(text[j].key)>>))

NotFound == "File not found"
EncodingError == "File encoding error"
FileIsEmpty == "File is empty."
GuiTypesNotFound == "guiTypes block not found. Please check if this is a valid HOI4 GUI file."

\* return self.elements: the fields after a parse that reached the end
ParseSucceeded(self, st, merged) ==
    [self EXCEPT !.parse_errors = <<>>,
                 !.elements = merged,
                 !.parsed_elements = st.parsed_elements,
                 !.window_size = st.window_size,
                 !.returned = Some(merged)]

\* self._apply_scripted_gui_data() on the elements _parse_elements left
ParsedThenMerged(self, st) ==
    ParseSucceeded(self, st, _apply_scripted_gui_data(self.scripted_gui_data, st.elements))

\* self.elements = [], then self._parse_elements(gui_content)
ParseContent(self, gui_content) ==
    ParsedThenMerged(self, _parse_elements(
                               [elements |-> <<>>, parsed_elements |-> self.parsed_elements,
                                window_size |-> self.window_size], gui_content))

\* the early returns: the error is recorded and [] is returned
ParseFailed(self, msg) == [self EXCEPT !.parse_errors = <<msg>>, !.returned = Some(<<>>)]

\* the part of parse_file after the file has been read and found not blank
ParseText(self, gui_content) ==
    IF gui_content = None THEN ParseFailed(self, GuiTypesNotFound)
    ELSE ParseContent(self, gui_content[1])

\* the instance fields after parse_file(file), and the value it returns
parse_file(self, file) ==
    IF file.status = "missing" THEN ParseFailed(self, NotFound)
    ELSE IF file.status = "undecodable" THEN ParseFailed(self, EncodingError)
    ELSE IF IsBlank(file.text) THEN ParseFailed(self, FileIsEmpty)
    ELSE ParseText(self, RootBlock(Unlines(_remove_comments(file.text)), "guiTypes"))

\* the instance as a record of its fields
Self == [elements |-> elements, parsed_elements |-> parsed_elements,
         window_size |-> window_size, parse_errors |-> parse_errors,
         scripted_gui_data |-> scripted_gui_data, returned |-> returned]

\* HOI4GUIParser.parse_file on the file gui_file
ParseFile ==
    \E after \in {parse_file(Self, gui_file)} :
        /\ elements' = after.elements
        /\ parsed_elements' = after.parsed_elements
        /\ window_size' = after.window_size
        /\ parse_errors' = after.parse_errors
        /\ returned' = after.returned
        /\ UNCHANGED <<gui_file, scripted_gui_data>>

----------------------------------------------------------------------------
(* ScriptedGUIParser: triggers, effects, definitions and parse_file *)

\* re.finditer of (\w+)\s*=\s*\{([^{}]*(?:\{[^{}]*\}[^{}]*)*)\} : the matches
\* <<name, stripped content>> from left to right, not overlapping
RECURSIVE OneLevelMatches(_, _)
OneLevelMatches(text, start_pos) ==
    LET found == {i \in start_pos..Len(text) : text[i].k = "open"}
    IN  IF found = {} THEN <<>>
        ELSE LET i == CHOOSE i \in found : \A j \in found : i <= j
                 close == OneLevelClose(text, i + 1, FALSE)
             IN  IF close = 0 THEN OneLevelMatches(text, i + 1)
                 ELSE <<<<text[i].key, StripNL(SubSeq(text, i + 1, close - 1))>>>>
                      \o OneLevelMatches(text, close + 1)

\* index of the closing brace of  \{([^{}]+)\}  opened before pos, 0 without a match
RECURSIVE SimpleClose(_, _)
SimpleClose(text, pos) ==
    IF pos > Len(text) THEN 0
    ELSE IF text[pos].k = "rb" THEN pos
    ELSE IF BraceFree(text[pos]) THEN SimpleClose(text, pos + 1)
    ELSE 0

\* re.finditer of (\w+)\s*=\s*\{([^{}]+)\}
RECURSIVE SimpleMatches(_, _)
SimpleMatches(text, start_pos) ==
    LET found == {i \in start_pos..Len(text) : text[i].k = "open"}
    IN  IF found = {} THEN <<>>
        ELSE LET i == CHOOSE i \in found : \A j \in found : i <= j
                 close == SimpleClose(text, i + 1)
             IN  IF close = 0 THEN SimpleMatches(text, i + 1)
                 ELSE <<<<text[i].key, StripNL(SubSeq(text, i + 1, close - 1))>>>>
                      \o SimpleMatches(text, close + 1)

\* the dict the two loops of _extract_triggers / _extract_effects build: a name
\* takes its last match of the first pattern, else its first match of the second
NamedBlocks(text) ==
    LET nested == OneLevelMatches(text, 1)
        simple == SimpleMatches(text, 1)
        names == {nested[i][1] : i \in 1..Len(nested)} \cup {simple[i][1] : i \in 1..Len(simple)}
        last(name) == CHOOSE i \in 1..Len(nested) :
                          /\ nested[i][1] = name
                          /\ \A j \in (i + 1)..Len(nested) : nested[j][1] # name
        first(name) == CHOOSE i \in 1..Len(simple) :
                          /\ simple[i][1] = name
                          /\ \A j \in 1..(i - 1) : simple[j][1] # name
    IN  [name \in names |->
            IF \E i \in 1..Len(nested) : nested[i][1] = name
            THEN nested[last(name)][2] ELSE simple[first(name)][2]]

\* the first block of the given type, as a dict; None without a block or an entry
FirstBlockDict(text, block_type) ==
    LET found == _extract_block_content_simple(text, block_type)
    IN  IF found = <<>> THEN None
        ELSE LET d == NamedBlocks(found[1])
             IN  IF DOMAIN d = {} THEN None ELSE Some(d)

\* ScriptedGUIParser._extract_triggers
_extract_triggers(text) == FirstBlockDict(text, "triggers")

\* ScriptedGUIParser._extract_effects
_extract_effects(text) == FirstBlockDict(text, "effects")

\* re.finditer of (\w+)\s*=\s*["']?([^"'}\s]+)["']? : key -> value
KeyValues(text) ==
    LET found == {i \in 1..Len(text) : text[i].k \in {"quoted", "bare"} /\ Strip(text[i].s) # ""}
    IN  [key \in {text[i].key : i \in found} |->
            text[CHOOSE i \in found : text[i].key = key
                                     /\ \A j \in found : text[j].key = key => j <= i].s]

\* ScriptedGUIParser._extract_properties.  The content comes from
\* _extract_block_property and so ends before the first closing brace.
_extract_properties(text) ==
    LET properties_content == _extract_block_property(text, "properties")
    IN  IF properties_content = None \/ properties_content[1] = <<>> THEN None
        ELSE LET found == SimpleMatches(properties_content[1], 1)
                 names == {found[i][1] : i \in 1..Len(found)}
             IN  IF names = {} THEN None
                 ELSE Some([name \in names |->
                               KeyValues(found[CHOOSE i \in 1..Len(found) :
                                                   /\ found[i][1] = name
                                                   /\ \A j \in (i + 1)..Len(found) :
                                                          found[j][1] # name][2])])

\* ScriptedGUIDefinition, with the fields the merge reads
ScriptedGUIDefinition(name, window_name, visible_condition, triggers, effects, properties, dirty) ==
    [name |-> name, window_name |-> window_name, visible_condition |-> visible_condition,
     triggers |-> triggers, effects |-> effects, properties |-> properties, dirty |-> dirty]

\* ScriptedGUIParser._parse_single_gui_definition
_parse_single_gui_definition(name, text) ==
    LET window_name == ScriptedGUIParser_extract_property(text, "window_name")
    IN  IF ~Truthy(window_name) THEN None
        ELSE Some(ScriptedGUIDefinition(name, window_name[1],
                                        _extract_block_property(text, "visible"),
                                        _extract_triggers(text), _extract_effects(text),
                                        _extract_properties(text),
                                        ScriptedGUIParser_extract_property(text, "dirty")))

\* ScriptedGUIParser._parse_scripted_gui_definitions: the definitions in the
\* order of the dict, the ones without a window_name left out
_parse_scripted_gui_definitions(text) ==
    LET gui_definitions == _extract_gui_definitions(text)
        F[i \in 0..Len(gui_definitions)] ==
            IF i = 0 THEN <<>>
            ELSE LET definition == _parse_single_gui_definition(gui_definitions[i].name,
                                                                gui_definitions[i].content)
                 IN  IF definition = None THEN F[i - 1] ELSE Append(F[i - 1], definition[1])
    IN  F[Len(gui_definitions)]

ScriptedGuiNotFound ==
    "scripted_gui block not found. Please check if this is a valid scripted_gui file."

\* a plausible slip: the error message is printed but not appended
ScriptedGUIParser_parse_file_unrecorded(self, file) ==
    LET gui_content == RootBlock(_remove_comments(file.text), "scripted_gui")
    IN  IF file.status # "ok" \/ IsBlank(file.text) \/ gui_content = None
        THEN [self EXCEPT !.parse_errors = <<>>, !.returned = Some(<<>>)]
        ELSE LET found == _parse_scripted_gui_definitions(gui_content[1])
             IN  [scripted_guis |-> found, parse_errors |-> <<>>, returned |-> Some(found)]

\* the instance fields after ScriptedGUIParser.parse_file(file), and the value it returns
ScriptedGUIParser_parse_file(self, file) ==
    LET failed(msg) == [self EXCEPT !.parse_errors = <<msg>>, !.returned = Some(<<>>)]
        gui_content == RootBlock(_remove_comments(file.text), "scripted_gui")
    IN  IF file.status = "missing" THEN failed(NotFound)
        ELSE IF file.status = "undecodable" THEN failed(EncodingError)
        ELSE IF IsBlank(file.text) THEN failed(FileIsEmpty)
        ELSE IF gui_content = None THEN failed(ScriptedGuiNotFound)
        ELSE LET found == _parse_scripted_gui_definitions(gui_content[1])
             IN  [scripted_guis |-> found, parse_errors |-> <<>>, returned |-> Some(found)]

\* ScriptedGUIParser.parse_file on the file scripted_file
ScriptedParseFile ==
    \E after \in {ScriptedGUIParser_parse_file(
                      [scripted_guis |-> scripted_guis, parse_errors |-> scripted_parse_errors,
                       returned |-> scripted_returned], scripted_file)} :
        /\ scripted_guis' = after.scripted_guis
        /\ scripted_parse_errors' = after.parse_errors
        /\ scripted_returned' = after.returned
        /\ UNCHANGED scripted_file

\* a plausible slip: a window_name already in the dict keeps its first definition
set_scripted_gui_data_first_wins(guis) ==
    LET F[i \in 0..Len(guis)] ==
            IF i = 0 THEN <<>>
            ELSE IF \E k \in 1..Len(F[i - 1]) : F[i - 1][k].window_name = guis[i].window_name
                 THEN F[i - 1]
                 ELSE Append(F[i - 1], guis[i])
    IN  F[Len(guis)]

\* HOI4GUIParser.set_scripted_gui_data: a dict keyed by window_name, in insertion order
set_scripted_gui_data(guis) ==
    LET F[i \in 0..Len(guis)] ==
            IF i = 0 THEN <<>>
            ELSE IF \E k \in 1..Len(F[i - 1]) : F[i - 1][k].window_name = guis[i].window_name
                 THEN [k \in 1..Len(F[i - 1]) |->
                          IF F[i - 1][k].window_name = guis[i].window_name
                          THEN guis[i] ELSE F[i - 1][k]]
                 ELSE Append(F[i - 1], guis[i])
    IN  F[Len(guis)]

\* the parser is given the definitions the scripted parser returned
SetScriptedGuiData ==
    /\ scripted_returned # None
    /\ scripted_gui_definitions' = Some(scripted_returned[1])
    /\ scripted_gui_data' = set_scripted_gui_data(scripted_returned[1])
    /\ UNCHANGED <<gui_file, elements, parsed_elements, window_size, parse_errors, returned,
                   widgetVars>>

----------------------------------------------------------------------------
(* The GUI files of the model *)

Block(type, props, kids) == <<Open(type)>> \o props \o kids \o <<RB>>

IconA   == <<Quoted("name", "icon_a"), Pos(10, 10)>>
IconA2  == <<Quoted("name", "icon_a"), Pos(10, 10), Quoted("spriteType", "A")>>
IconA0  == <<Quoted("name", "icon_a")>>
NoName  == <<Pos(10, 10)>>
Blank   == <<Quoted("name", " "), Pos(10, 10)>>
Main    == <<Quoted("name", "main"), Pos(0, 0), SizeT(800, 600)>>
Sized   == <<SizeT(1024, 768)>>
Unsized == <<Quoted("name", "c")>>
Win     == <<Quoted("name", "w"), SizeT(400, 300)>>

\* the types _parse_top_level_elements scans for
TopTypes ==
    {"windowType", "checkboxType", "scrollbarType", "gridBoxType", "listboxType", "editboxType"}

\* blocks without a nested block
Leaves ==
    {Block(type, props, <<>>) : type \in TopTypes \cup {"iconType"}, props \in {IconA, NoName}}
    \cup {Block("windowType", Win, <<>>), Block("iconType", IconA2, <<>>)}

\* what the containers of the model hold
Kids ==
    {<<>>,
     Block("iconType", IconA, <<>>),
     Block("iconType", IconA, <<>>) \o Block("iconType", IconA2, <<>>),
     Block("iconType", IconA, <<>>) \o Block("iconType", IconA0, <<>>),
     Block("iconType", Blank, <<>>),
     Block("buttonType", IconA, <<>>) \o Block("buttonType", IconA2, <<>>),
     Block("buttonType", IconA, <<>>) \o Block("iconType", IconA, <<>>),
     Block("instantTextBoxType", IconA, <<>>) \o Block("instantTextboxType", IconA, <<>>),
     Block("windowType", Win, <<>>) \o Block("windowType", Win, <<>>),
     Block("containerWindowType", Main, Block("iconType", IconA, <<>>)),
     Block("containerWindowType", Main, <<>>) \o Block("containerWindowType", Main, <<>>)}

Containers ==
    {Block("containerWindowType", Main, kids) : kids \in Kids}
    \cup {Block("containerWindowType", props, kids) :
              props \in {Sized, Unsized},
              kids \in {<<>>, Block("iconType", IconA, <<>>) \o Block("iconType", IconA2, <<>>)}}

Items == Leaves \cup Containers

\* at most MaxTop items stand directly under guiTypes
MaxTop == 2

RECURSIVE Bodies(_)
Bodies(n) ==
    IF n = 0 THEN {<<>>}
    ELSE Bodies(n - 1) \cup {b \o item : b \in Bodies(n - 1), item \in Items}

File(status, text) == [status |-> status, text |-> text]
GuiTypes(body) == File("ok", <<Open("guiTypes")>> \o body \o <<RB>>)

\* files parse_file rejects, and files with comments or an unclosed block
OddFiles ==
    {File("missing", <<>>), File("undecodable", <<>>), File("ok", <<>>), File("ok", <<NL, NL>>),
     File("ok", <<Open("foo"), Bare("bar", "1"), RB>>),
     File("ok", <<Open("guiTypes"), Open("containerWindowType")>> \o Main),
     File("ok", <<Open("guiTypes"), Open("containerWindowType")>> \o Main \o <<RB>>),
     File("ok", <<Hash, Open("guiTypes"), NL, Open("guiTypes"), NL, Open("containerWindowType"),
                  Quoted("name", "main"), Hash, Pos(10, 10), NL, SizeT(800, 600), RB, NL, RB>>)}

GuiFiles == {GuiTypes(body) : body \in Bodies(MaxTop)} \cup OddFiles

----------------------------------------------------------------------------
(* The scripted_gui files of the model *)

Always == Bare("always", "yes")
HasFlag == Bare("has_flag", "ready")
IsAi   == Bare("is_ai", "no")
AddOne == Bare("add", "1")
Dirty  == <<Bare("dirty", "v"), NL>>

WindowName(s) == <<Quoted("window_name", s), NL>>
Entry(name, value) == <<Open(name), value, RB, NL>>
Lines(block_type, entries) == <<Open(block_type), NL>> \o entries \o <<RB, NL>>
Definition(name, lines) == Lines(name, lines)

\* definitions with and without a window_name the parser finds
ScriptedItems ==
    {Definition("a", WindowName("main")),
     Definition("a", WindowName("w") \o Dirty),
     Definition("b", WindowName("")),
     Definition("b", <<Open("visible"), Always, RB, Quoted("window_name", "main"), NL>>),
     Definition("b", Dirty),
     <<Open("c"), Bare("window_name", "main"), RB, NL>>,
     Definition("d", Lines("triggers", Entry("ok_button_visible", Always)) \o WindowName("w")
                     \o Entry("visible", IsAi)),
     Definition("d", Lines("properties", WindowName("c"))),
     <<Open("e"), NL>> \o WindowName("w")}

\* definitions whose triggers and effects name the button ok_button or the icon icon_a
MergeItems ==
    {Definition("m1", WindowName("main") \o Lines("triggers", Entry("ok_button_visible", HasFlag))),
     Definition("m2", WindowName("w") \o Lines("triggers", Entry("ok_button_click_enabled", IsAi))),
     Definition("m3", WindowName("c") \o Lines("effects", Entry("ok_button_click", AddOne)) \o Dirty),
     Definition("m4", WindowName("main") \o Entry("visible", IsAi) \o Dirty),
     Definition("m5", WindowName("w") \o Lines("triggers", Entry("ok_button_click_enabled", IsAi)
                                                             \o Entry("ok_button_visible", HasFlag))),
     Definition("m6", WindowName("c") \o Lines("triggers", Entry("icon_a_visible", Always)))}

\* at most MaxDefs definitions stand directly under scripted_gui
MaxDefs == 2

RECURSIVE ScriptedBodies(_, _)
ScriptedBodies(items, n) ==
    IF n = 0 THEN {<<>>}
    ELSE ScriptedBodies(items, n - 1)
         \cup {b \o item : b \in ScriptedBodies(items, n - 1), item \in items}

ScriptedGui(body) == File("ok", <<Open("scripted_gui"), NL>> \o body \o <<RB, NL>>)

\* files parse_file rejects, and a file with a comment
OddScriptedFiles ==
    {File("missing", <<>>), File("undecodable", <<>>), File("ok", <<>>), File("ok", <<NL, NL>>),
     File("ok", <<Open("foo"), Bare("bar", "1"), RB>>),
     File("ok", <<Open("scripted_gui"), NL, Open("a"), NL>> \o WindowName("main")),
     File("ok", <<Hash, Open("scripted_gui"), NL, Open("scripted_gui"), NL, Open("a"), NL, Hash>>
                \o WindowName("main") \o WindowName("w") \o <<RB, NL, RB>>)}

ScriptedFiles ==
    {ScriptedGui(body) : body \in ScriptedBodies(ScriptedItems, MaxDefs)} \cup OddScriptedFiles

MergeScriptedFiles ==
    {ScriptedGui(body) : body \in ScriptedBodies(MergeItems, MaxDefs)} \cup OddScriptedFiles

OkButton == <<Quoted("name", "ok_button"), Pos(10, 10)>>

MergeGuiFiles ==
    {GuiTypes(Block("containerWindowType", Main,
                    Block("buttonType", OkButton, <<>>) \o Block("iconType", IconA, <<>>))),
     GuiTypes(Block("containerWindowType", Unsized, Block("buttonType", OkButton, <<>>))
              \o Block("windowType", Win, <<>>)),
     GuiTypes(Block("containerWindowType", Main, <<>>))} \cup OddFiles

DefaultSize == <<800, 600>>

\* the fields of a HOI4GUIParser after __init__
InitParser ==
    /\ elements = <<>>
    /\ parsed_elements = {}
    /\ window_size = DefaultSize
    /\ parse_errors = <<>>
    /\ scripted_gui_data = <<>>
    /\ returned = None

IdleExtract ==
    /\ content = <<>>
    /\ called = {}
    /\ blocks = <<>>
    /\ simple_blocks = <<>>
    /\ background_sprite = None
    /\ property_value = None
    /\ scripted_property_value = None
    /\ extracted_definitions = <<>>
    /\ container_element = None

\* the fields of a ScriptedGUIParser after __init__
InitScriptedParser ==
    /\ scripted_guis = <<>>
    /\ scripted_parse_errors = <<>>
    /\ scripted_returned = None

IdleScripted ==
    /\ scripted_file = File("missing", <<>>)
    /\ InitScriptedParser

\* set_scripted_gui_data has not been called
IdleCaller ==
    /\ scripted_gui_definitions = None
    /\ current_file_path = None
    /\ canvas_elements = <<>>
    /\ canvas_window_size = DefaultSize

\* the local results of AnalysisWorker.run as it starts
NewResults ==
    [orphaned_gfx |-> {}, missing_definitions |-> {}, duplicate_definitions |-> EmptyDict,
     used_gfx |-> {}, usage_locations |-> EmptyDict]

\* the fields of a GFXManager after __init__; no AnalysisWorker exists
InitGFXManager ==
    /\ gfx_data = EmptyDict
    /\ orphaned_gfx = {}
    /\ missing_definitions = {}
    /\ duplicate_definitions = EmptyDict
    /\ used_gfx = {}
    /\ usage_locations = EmptyDict
    /\ progress_bar = 0
    /\ pc = "none"
    /\ results = NewResults
    /\ code_files = <<>>
    /\ idx = 0
    /\ emitted = <<>>
    /\ queue = <<>>
    /\ scanning = None
    /\ snapshot = EmptyDict

IdleAnalysis ==
    /\ mod_files = <<>>
    /\ InitGFXManager

----------------------------------------------------------------------------
(* Specification SpecGui: a new HOI4GUIParser parses one file of GuiFiles *)

InitGui ==
    /\ gui_file \in GuiFiles
    /\ InitParser
    /\ IdleCaller
    /\ IdleAnalysis
    /\ IdleExtract
    /\ IdleScripted

NextGui == ParseFile /\ UNCHANGED <<extractVars, scriptedVars, callerVars, analysisVars>>

SpecGui == InitGui /\ [][NextGui]_vars

----------------------------------------------------------------------------
(* Specification SpecScripted: a new ScriptedGUIParser parses one file *)

InitScripted ==
    /\ scripted_file \in ScriptedFiles
    /\ InitScriptedParser
    /\ gui_file = File("missing", <<>>)
    /\ InitParser
    /\ IdleCaller
    /\ IdleAnalysis
    /\ IdleExtract

NextScripted == ScriptedParseFile /\ UNCHANGED <<extractVars, guiVars, callerVars, analysisVars>>

SpecScripted == InitScripted /\ [][NextScripted]_vars

----------------------------------------------------------------------------
(* Specification SpecMerge: a scripted_gui file and a GUI file are parsed,   *)
(* the definitions are handed to the HOI4GUIParser at any moment             *)

InitMerge ==
    /\ scripted_file \in MergeScriptedFiles
    /\ InitScriptedParser
    /\ gui_file \in MergeGuiFiles
    /\ InitParser
    /\ IdleCaller
    /\ IdleAnalysis
    /\ IdleExtract

NextMerge ==
    \/ ScriptedParseFile /\ UNCHANGED <<extractVars, guiVars, callerVars, analysisVars>>
    \/ SetScriptedGuiData /\ UNCHANGED <<extractVars, scriptedVars, analysisVars>>
    \/ ParseFile /\ UNCHANGED <<extractVars, scriptedVars, callerVars, analysisVars>>

SpecMerge == InitMerge /\ [][NextMerge]_vars

----------------------------------------------------------------------------
(* Specification SpecContainer: any caller hands a list of definitions to    *)
(* set_scripted_gui_data, then a GUI file is parsed.  The lists hold what    *)
(* the dataclass ScriptedGUIDefinition allows, properties included.          *)

Props1 == Some(DictSet(EmptyDict, "alpha", "1"))
Props2 == Some(DictSet(DictSet(EmptyDict, "alpha", "2"), "beta", "3"))
NoProps == Some(EmptyDict)

ContainerDefinitions ==
    {ScriptedGUIDefinition("g1", "main", None, None, None, None, None),
     ScriptedGUIDefinition("g2", "main", Some(IsAi), None, None, Props1, None),
     ScriptedGUIDefinition("g3", "main", Some(Always), None, None, Props2, Some(<<Always>>)),
     ScriptedGUIDefinition("g4", "main", Some(HasFlag), None, None, NoProps, None),
     ScriptedGUIDefinition("g5", "c", Some(IsAi), None, None, Props2, None),
     ScriptedGUIDefinition("g6", "other", Some(Always), None, None, Props1, None)}

\* a list passed to set_scripted_gui_data holds at most MaxList definitions
MaxList == 2

RECURSIVE DefinitionLists(_)
DefinitionLists(n) ==
    IF n = 0 THEN {<<>>}
    ELSE DefinitionLists(n - 1)
         \cup {Append(l, d) : l \in DefinitionLists(n - 1), d \in ContainerDefinitions}

ContainerGuiFiles ==
    {GuiTypes(Block("containerWindowType", Main, Block("iconType", IconA, <<>>))),
     GuiTypes(Block("containerWindowType", Unsized, Block("containerWindowType", Main, <<>>))
              \o Block("windowType", Win, <<>>)),
     GuiTypes(Block("windowType", Win, <<>>) \o Block("containerWindowType", Unsized, <<>>))}

\* a call of set_scripted_gui_data with a list of the model
SetDefinitions ==
    \E guis \in DefinitionLists(MaxList) :
        /\ scripted_gui_definitions' = Some(guis)
        /\ scripted_gui_data' = set_scripted_gui_data(guis)
        /\ UNCHANGED <<gui_file, elements, parsed_elements, window_size, parse_errors, returned,
                       widgetVars>>

InitContainer ==
    /\ gui_file \in ContainerGuiFiles
    /\ InitParser
    /\ IdleCaller
    /\ IdleAnalysis
    /\ IdleExtract
    /\ IdleScripted

NextContainer ==
    \/ SetDefinitions /\ UNCHANGED <<extractVars, scriptedVars, analysisVars>>
    \/ ParseFile /\ UNCHANGED <<extractVars, scriptedVars, callerVars, analysisVars>>

SpecContainer == InitContainer /\ [][NextContainer]_vars

----------------------------------------------------------------------------
(* Specification SpecExtract: the two block extractors on bounded texts *)

MaxLen == 7

ExtractAlphabet == {Open("tag"), LB, RB, Word("A")}
Texts(alphabet, n) == UNION {[1..m -> alphabet] : m \in 0..n}

InitExtract ==
    /\ content \in Texts(ExtractAlphabet, MaxLen)
    /\ called = {}
    /\ blocks = <<>>
    /\ simple_blocks = <<>>
    /\ background_sprite = None
    /\ property_value = None
    /\ scripted_property_value = None
    /\ extracted_definitions = <<>>
    /\ container_element = None
    /\ gui_file = File("missing", <<>>)
    /\ InitParser
    /\ IdleCaller
    /\ IdleAnalysis
    /\ IdleScripted

ExtractBlockContent ==
    /\ "gui" \notin called
    /\ blocks' = _extract_block_content(content, "tag", FALSE)
    /\ called' = called \cup {"gui"}
    /\ UNCHANGED <<content, simple_blocks, background_sprite, property_value,
                   scripted_property_value, extracted_definitions, container_element, guiVars,
                   scriptedVars, callerVars, analysisVars>>

ExtractBlockContentSimple ==
    /\ "scripted" \notin called
    /\ simple_blocks' = _extract_block_content_simple(content, "tag")
    /\ called' = called \cup {"scripted"}
    /\ UNCHANGED <<content, blocks, background_sprite, property_value,
                   scripted_property_value, extracted_definitions, container_element, guiVars,
                   scriptedVars, callerVars, analysisVars>>

NextExtract == ExtractBlockContent \/ ExtractBlockContentSimple

SpecExtract == InitExtract /\ [][NextExtract]_vars

----------------------------------------------------------------------------
(* Specification SpecSprite: _extract_background_sprite on bounded texts *)

MaxSpriteLen == 6

SpriteAlphabet ==
    {Open("background"), Quoted("spriteType", "A"), Quoted("quadTextureSprite", "B"),
     Quoted("background", "C"), RB}

InitSprite ==
    /\ content \in Texts(SpriteAlphabet, MaxSpriteLen)
    /\ called = {}
    /\ blocks = <<>>
    /\ simple_blocks = <<>>
    /\ background_sprite = None
    /\ property_value = None
    /\ scripted_property_value = None
    /\ extracted_definitions = <<>>
    /\ container_element = None
    /\ gui_file = File("missing", <<>>)
    /\ InitParser
    /\ IdleCaller
    /\ IdleAnalysis
    /\ IdleScripted

ExtractBackgroundSprite ==
    /\ "sprite" \notin called
    /\ background_sprite' = _extract_background_sprite(content)
    /\ called' = called \cup {"sprite"}
    /\ UNCHANGED <<content, blocks, simple_blocks, property_value,
                   scripted_property_value, extracted_definitions, container_element, guiVars,
                   scriptedVars, callerVars, analysisVars>>

NextSprite == ExtractBackgroundSprite

SpecSprite == InitSprite /\ [][NextSprite]_vars

----------------------------------------------------------------------------
(* main.py: the asset names, the files of the mod folder and the scan that   *)
(* fills GFXManager.gfx_data.  A name is the sequence of its pieces, GFX_    *)
(* being a piece of its own, so that startswith, replace and the substring   *)
(* test are computed on the name; a file is a sequence of lines, a line a    *)
(* sequence of lexemes separated by one blank.                               *)

GFX == "GFX_"

GFX_x       == <<GFX, "x">>
GFX_x_big   == <<GFX, "x", "_big">>
GFX_banner  == <<GFX, "banner">>
banner      == <<"banner">>
GFX_a_GFX_b == <<GFX, "a_", GFX, "b">>
GFX_a_b     == <<GFX, "a_", "b">>

\* len(piece)
PieceLen(piece) ==
    CASE piece = GFX -> 4
      [] piece = "_big" -> 4
      [] piece = "banner" -> 6
      [] piece = "a_" -> 2
      [] OTHER -> 1

RECURSIVE NameLen(_)
NameLen(name) == IF name = <<>> THEN 0 ELSE PieceLen(Head(name)) + NameLen(Tail(name))

\* name.startswith('GFX_')
StartsWithGFX(name) == name # <<>> /\ name[1] = GFX

\* 'GFX' in name
ContainsGFX(name) == \E i \in 1..Len(name) : name[i] = GFX

\* name.replace('GFX_', ''): every occurrence goes
ReplaceGFX(name) == SelectSeq(name, LAMBDA piece : piece # GFX)

\* a in b, for strings
IsSubstring(a, b) == \E i \in 0..(Len(b) - Len(a)) : SubSeq(b, i + 1, i + Len(a)) = a

\* the lexemes of the files of the mod folder
Sprite(name, exists) == [k |-> "sprite", name |-> name, exists |-> exists]
                               \* spriteType = { name = "name" texturefile = "gfx/t.dds" }
Icon(name)    == [k |-> "icon", name |-> name]      \* icon = name
Comment(name) == [k |-> "comment", name |-> name]   \* # icon = name
Size100       == [k |-> "pad", name |-> <<>>]       \* size = 100

\* len of the text of a lexeme
Width(lexeme) ==
    CASE lexeme.k = "sprite" -> 52 + NameLen(lexeme.name)
      [] lexeme.k = "icon" -> 7 + NameLen(lexeme.name)
      [] lexeme.k = "comment" -> 9 + NameLen(lexeme.name)
      [] OTHER -> 10

\* a file under mod_folder_path; nl: its text ends with a line end
ModFile(path, ext, readable, lines, nl) ==
    [path |-> path, ext |-> ext, readable |-> readable, lines |-> lines, nl |-> nl]

\* the line up to its first #
CleanLine(line) ==
    LET i == FirstIdx(line, LAMBDA lexeme : lexeme.k = "comment")
    IN  IF i = 0 THEN line ELSE SubSeq(line, 1, i - 1)

\* the names of the spriteType blocks parse_gfx_file finds, in file order
RECURSIVE SpritesOfLines(_)
SpritesOfLines(lines) ==
    IF lines = <<>> THEN <<>>
    ELSE SelectSeq(CleanLine(Head(lines)), LAMBDA lexeme : lexeme.k = "sprite")
         \o SpritesOfLines(Tail(lines))

\* the body of the loop over sprite_matches in GFXManager.parse_gfx_file
DefineSprite(st, sprite, path) ==
    LET name == sprite.name
        known == name \in DOMAIN st.gfx_data
        status == IF known THEN "duplicate"
                  ELSE IF sprite.exists THEN "valid" ELSE "missing_file"
        dups == st.duplicate_definitions
    IN  [gfx_data |-> DictSet(st.gfx_data, name, [file_source |-> path, status |-> status]),
         duplicate_definitions |->
             IF ~known THEN dups
             ELSE IF name \in DOMAIN dups THEN DictSet(dups, name, Append(dups[name], path))
             ELSE DictSet(dups, name, <<st.gfx_data[name].file_source, path>>)]

\* GFXManager.parse_gfx_file: a file that cannot be read changes nothing
parse_gfx_file(st, file) ==
    LET sprites == SpritesOfLines(file.lines)
        F[i \in 0..Len(sprites)] ==
            IF i = 0 THEN st ELSE DefineSprite(F[i - 1], sprites[i], file.path)
    IN  IF file.readable THEN F[Len(sprites)] ELSE st

\* Path(mod_folder_path).rglob("*.gfx")
GfxFilesOf(files) == SelectSeq(files, LAMBDA file : file.ext = "gfx")

\* the table and the duplicate record after the first n files of a scan
ScanUpTo(st, gfx_files, n) ==
    LET F[i \in 0..n] == IF i = 0 THEN st ELSE parse_gfx_file(F[i - 1], gfx_files[i])
    IN  F[n]

\* GFXManager.scan_gfx_files: gfx_data is cleared, duplicate_definitions is not
scan_gfx_files(st, files) ==
    ScanUpTo([st EXCEPT !.gfx_data = EmptyDict], GfxFilesOf(files), Len(GfxFilesOf(files)))

----------------------------------------------------------------------------
(* main.py: AnalysisWorker.run, piece by piece *)

\* the duplicate check over the dict it is given: one file per key
DuplicatesOf(table) ==
    LET name_to_files == [name \in DOMAIN table |-> <<table[name].file_source>>]
        dup == {name \in DOMAIN table : Len(name_to_files[name]) > 1}
    IN  [name \in dup |-> name_to_files[name]]

\* file_extensions; one rglob call each: all files of one extension, then the next
Extensions == <<"txt", "gui", "mod", "pdx", "interface", "gfx", "lua", "yml", "yaml">>

CodeFilesOf(files) ==
    LET F[i \in 0..Len(Extensions)] ==
            IF i = 0 THEN <<>>
            ELSE F[i - 1] \o SelectSeq(files, LAMBDA file : file.ext = Extensions[i])
    IN  F[Len(Extensions)]

\* the value of i as the while loop over the characters of a line ends: the
\* place of the first # outside a string, else len(line)
LineStop(line) ==
    LET clean == CleanLine(line)
        F[i \in 0..Len(clean)] == IF i = 0 THEN 0 ELSE F[i - 1] + Width(clean[i])
        text == F[Len(clean)] + (IF Len(clean) > 1 THEN Len(clean) - 1 ELSE 0)
    IN  IF Len(clean) < Len(line) /\ clean # <<>> THEN text + 1 ELSE text

\* the value the inner loops leave in i: they reuse the name of the index of
\* the loop over code_files; content.split('\n') ends with an empty line when
\* the text ends with a line end
LastStop(file) ==
    IF file.nl \/ file.lines = <<>> THEN 0 ELSE LineStop(file.lines[Len(file.lines)])

\* GFX_[A-Za-z0-9_]+ on a name: from its first GFX_ to its end
DirectMatch(name) ==
    LET at == {i \in 1..(Len(name) - 1) : name[i] = GFX}
    IN  IF at = {} THEN {}
        ELSE {SubSeq(name, CHOOSE i \in at : \A j \in at : i <= j, Len(name))}

\* what the patterns of gfx_patterns find in a lexeme
PatternMatches(lexeme) ==
    CASE lexeme.k = "icon" -> {lexeme.name} \cup DirectMatch(lexeme.name)
      [] lexeme.k = "sprite" -> DirectMatch(lexeme.name)
      [] OTHER -> {}

\* every match in the file without its comments
RECURSIVE MatchesOfLines(_)
MatchesOfLines(lines) ==
    IF lines = <<>> THEN {}
    ELSE UNION {PatternMatches(CleanLine(Head(lines))[i]) :
                    i \in 1..Len(CleanLine(Head(lines)))}
         \cup MatchesOfLines(Tail(lines))

\* a plausible slip: a match in the file that defines the name counts as well
FoundGfxWithSelf(table, file) ==
    {match \in MatchesOfLines(file.lines) :
        /\ StartsWithGFX(match) \/ ContainsGFX(match)
        /\ match \in DOMAIN table}

\* found_gfx: the matches that hold GFX, are keys of the table and are not
\* defined in the file itself
FoundGfx(table, file) ==
    {match \in MatchesOfLines(file.lines) :
        /\ StartsWithGFX(match) \/ ContainsGFX(match)
        /\ match \in DOMAIN table
        /\ file.path # table[match].file_source}

\* the try block of the loop over code_files, for one file
ScanFile(table, res, file) ==
    LET found == FoundGfx(table, file)
        locations == res.usage_locations
    IN  [res EXCEPT
           !.used_gfx = @ \cup found,
           !.usage_locations =
               [name \in DOMAIN locations \cup found |->
                   IF name \notin found THEN locations[name]
                   ELSE IF name \notin DOMAIN locations THEN <<file.path>>
                   ELSE IF \E k \in 1..Len(locations[name]) : locations[name][k] = file.path
                        THEN locations[name]
                   ELSE Append(locations[name], file.path)]]

\* a plausible slip: an unreadable file ends the loop over code_files
SkipsToEnd(file, position, total) == IF file.readable THEN position + 1 ELSE total

\* the except clause: the loop goes on with the next file
NextPosition(file, position, total) == position + 1

\* 30 + int((i / total_files) * 50)
ProgressOf(i, total_files) == 30 + ((i * 50) \div total_files)

\* base_name and used_base
BaseName(name) == IF StartsWithGFX(name) THEN ReplaceGFX(name) ELSE name

\* the test of the inner loop of the orphan search
Reconciles(gfx_name, used) ==
    \/ BaseName(gfx_name) = BaseName(used)
    \/ IsSubstring(gfx_name, used)
    \/ IsSubstring(used, gfx_name)

\* the names the orphan search looks at, and the used names that end its inner loop
UnusedNames(table, res) == {gfx_name \in DOMAIN table : gfx_name \notin res.used_gfx}
ReconcilingWith(res, gfx_name) == {used \in res.used_gfx : Reconciles(gfx_name, used)}

\* the files copied to usage_locations[gfx_name] from the entry of used
Borrowed(table, res, gfx_name, used) ==
    SelectSeq(res.usage_locations[used],
              LAMBDA usage_file : usage_file # table[gfx_name].file_source)

\* the orphan search and the missing-definition search; pick[gfx_name] is the
\* used name at which the iteration over the set used_gfx stops for gfx_name
Classify(table, res, pick) ==
    [res EXCEPT
       !.orphaned_gfx = {gfx_name \in UnusedNames(table, res) :
                            ReconcilingWith(res, gfx_name) = {}},
       !.usage_locations =
           [name \in DOMAIN res.usage_locations \cup DOMAIN pick |->
               IF name \in DOMAIN pick
               THEN (IF name \in DOMAIN res.usage_locations
                     THEN res.usage_locations[name] ELSE <<>>)
                    \o (IF pick[name] \in DOMAIN res.usage_locations
                        THEN Borrowed(table, res, name, pick[name]) ELSE <<>>)
               ELSE res.usage_locations[name]],
       !.missing_definitions = {used \in res.used_gfx : used \notin DOMAIN table}]

\* the iteration orders a set of used names can have, as far as they matter
Picks(table, res) ==
    LET reconciled == {gfx_name \in UnusedNames(table, res) :
                          ReconcilingWith(res, gfx_name) # {}}
    IN  {pick \in [reconciled -> res.used_gfx] :
            \A gfx_name \in reconciled : pick[gfx_name] \in ReconcilingWith(res, gfx_name)}

----------------------------------------------------------------------------
(* main.py: the handlers of the main window and the steps of the worker      *)
(* thread.  Signals of the worker are queued to the main thread, which       *)
(* handles them in order.                                                    *)

ProgressUpdated(value) == [sig |-> "progress_updated", value |-> value]
AnalysisComplete(res)  == [sig |-> "analysis_complete", results |-> res]

workerVars == <<pc, results, code_files, idx, emitted, snapshot>>
uiVars == <<orphaned_gfx, missing_definitions, used_gfx, usage_locations, progress_bar>>

\* GFXManager.scan_gfx_files as one step of the main thread
ScanGfxFiles ==
    /\ scanning = None
    /\ \E st \in {scan_gfx_files([gfx_data |-> gfx_data,
                                  duplicate_definitions |-> duplicate_definitions],
                                 mod_files)} :
           /\ gfx_data' = st.gfx_data
           /\ duplicate_definitions' = st.duplicate_definitions
    /\ UNCHANGED <<mod_files, scanning, queue, uiVars, workerVars>>

\* GFXManager.scan_gfx_files while another thread runs: gfx_data.clear() ...
ScanBegin ==
    /\ scanning = None
    /\ gfx_data' = EmptyDict
    /\ scanning' = IF GfxFilesOf(mod_files) = <<>> THEN None ELSE Some(0)
    /\ UNCHANGED <<mod_files, duplicate_definitions, queue, uiVars, workerVars>>

\* ... then one parse_gfx_file call after the other
ScanStep ==
    /\ scanning # None
    /\ \E st \in {parse_gfx_file([gfx_data |-> gfx_data,
                                  duplicate_definitions |-> duplicate_definitions],
                                 GfxFilesOf(mod_files)[scanning[1] + 1])} :
           /\ gfx_data' = st.gfx_data
           /\ duplicate_definitions' = st.duplicate_definitions
    /\ scanning' = IF scanning[1] + 1 = Len(GfxFilesOf(mod_files)) THEN None
                   ELSE Some(scanning[1] + 1)
    /\ UNCHANGED <<mod_files, queue, uiVars, workerVars>>

\* GFXManager.run_full_analysis: the worker is handed self.gfx_data itself
RunFullAnalysis ==
    /\ scanning = None
    /\ gfx_data # EmptyDict
    /\ progress_bar' = 0
    /\ pc' = "start"
    /\ snapshot' = gfx_data
    /\ emitted' = <<>>
    /\ UNCHANGED <<mod_files, gfx_data, duplicate_definitions, scanning, queue, results,
                   code_files, idx, orphaned_gfx, missing_definitions, used_gfx,
                   usage_locations>>

\* AnalysisWorker.run up to the first emit
RunStart ==
    /\ pc = "start"
    /\ results' = NewResults
    /\ emitted' = Append(emitted, ProgressUpdated(10))
    /\ queue' = Append(queue, ProgressUpdated(10))
    /\ pc' = "duplicates"
    /\ UNCHANGED <<mod_files, gfx_data, duplicate_definitions, scanning, uiVars, code_files,
                   idx, snapshot>>

\* the duplicate check, the second emit and the enumeration of the corpus
RunDuplicates ==
    /\ pc = "duplicates"
    /\ results' = [results EXCEPT !.duplicate_definitions = DuplicatesOf(gfx_data)]
    /\ emitted' = Append(emitted, ProgressUpdated(30))
    /\ queue' = Append(queue, ProgressUpdated(30))
    /\ code_files' = CodeFilesOf(mod_files)
    /\ idx' = 0
    /\ pc' = "scan"
    /\ UNCHANGED <<mod_files, gfx_data, duplicate_definitions, scanning, uiVars, snapshot>>

\* one pass of the loop over code_files
RunScanFile ==
    /\ pc = "scan"
    /\ idx < Len(code_files)
    /\ LET file == code_files[idx + 1]
           i == IF file.readable THEN LastStop(file) ELSE idx
           sent == IF i % 10 = 0 THEN <<ProgressUpdated(ProgressOf(i, Len(code_files)))>>
                   ELSE <<>>
       IN  /\ results' = IF file.readable THEN ScanFile(gfx_data, results, file) ELSE results
           /\ emitted' = emitted \o sent
           /\ queue' = queue \o sent
           /\ idx' = NextPosition(file, idx, Len(code_files))
    /\ UNCHANGED <<mod_files, gfx_data, duplicate_definitions, scanning, uiVars, pc,
                   code_files, snapshot>>

\* after the loop: emit 80, the orphan search, the missing-definition search
RunClassify ==
    /\ pc = "scan"
    /\ idx >= Len(code_files)
    /\ \E pick \in Picks(gfx_data, results) : results' = Classify(gfx_data, results, pick)
    /\ emitted' = Append(emitted, ProgressUpdated(80))
    /\ queue' = Append(queue, ProgressUpdated(80))
    /\ pc' = "finish"
    /\ UNCHANGED <<mod_files, gfx_data, duplicate_definitions, scanning, uiVars, code_files,
                   idx, snapshot>>

\* a plausible slip: the result is sent before the last progress value
RunFinishCompleteFirst ==
    /\ pc = "finish"
    /\ emitted' = emitted \o <<AnalysisComplete(results), ProgressUpdated(100)>>
    /\ queue' = queue \o <<AnalysisComplete(results), ProgressUpdated(100)>>
    /\ pc' = "done"
    /\ UNCHANGED <<mod_files, gfx_data, duplicate_definitions, scanning, uiVars, results,
                   code_files, idx, snapshot>>

\* the last two emits
RunFinish ==
    /\ pc = "finish"
    /\ emitted' = emitted \o <<ProgressUpdated(100), AnalysisComplete(results)>>
    /\ queue' = queue \o <<ProgressUpdated(100), AnalysisComplete(results)>>
    /\ pc' = "done"
    /\ UNCHANGED <<mod_files, gfx_data, duplicate_definitions, scanning, uiVars, results,
                   code_files, idx, snapshot>>

\* the main thread handles progress_updated: progress_bar.setValue
SetValue ==
    /\ scanning = None
    /\ queue # <<>>
    /\ Head(queue).sig = "progress_updated"
    /\ progress_bar' = Head(queue).value
    /\ queue' = Tail(queue)
    /\ UNCHANGED <<mod_files, gfx_data, duplicate_definitions, scanning, orphaned_gfx,
                   missing_definitions, used_gfx, usage_locations, workerVars>>

\* the main thread handles analysis_complete: GFXManager.on_analysis_complete
OnAnalysisComplete ==
    /\ scanning = None
    /\ queue # <<>>
    /\ Head(queue).sig = "analysis_complete"
    /\ orphaned_gfx' = Head(queue).results.orphaned_gfx
    /\ missing_definitions' = Head(queue).results.missing_definitions
    /\ duplicate_definitions' = Head(queue).results.duplicate_definitions
    /\ used_gfx' = Head(queue).results.used_gfx
    /\ usage_locations' = Head(queue).results.usage_locations
    /\ queue' = Tail(queue)
    /\ UNCHANGED <<mod_files, gfx_data, scanning, progress_bar, workerVars>>

WorkerStep == RunStart \/ RunDuplicates \/ RunScanFile \/ RunClassify \/ RunFinish

----------------------------------------------------------------------------
(* The mod folders of the model *)

GfxFile(path, names) ==
    ModFile(path, "gfx", TRUE, [i \in 1..Len(names) |-> <<Sprite(names[i], TRUE)>>], TRUE)

GfxSets ==
    {<<>>,
     <<GfxFile("a.gfx", <<GFX_x>>)>>,
     <<GfxFile("a.gfx", <<GFX_x, GFX_x>>)>>,
     <<GfxFile("a.gfx", <<GFX_x>>), GfxFile("b.gfx", <<GFX_x>>)>>,
     <<GfxFile("a.gfx", <<GFX_x>>),
       ModFile("b.gfx", "gfx", TRUE, <<<<Sprite(GFX_x_big, FALSE)>>>>, TRUE)>>,
     <<GfxFile("a.gfx", <<GFX_x>>), GfxFile("b.gfx", <<GFX_banner>>)>>,
     <<GfxFile("a.gfx", <<GFX_banner>>), GfxFile("b.gfx", <<banner>>)>>,
     <<GfxFile("a.gfx", <<GFX_a_GFX_b>>), GfxFile("b.gfx", <<GFX_a_b>>)>>,
     <<GfxFile("a.gfx", <<GFX_x, GFX_x_big>>), GfxFile("b.gfx", <<GFX_x_big>>)>>,
     <<ModFile("a.gfx", "gfx", FALSE, <<<<Sprite(GFX_x, TRUE)>>>>, TRUE),
       GfxFile("b.gfx", <<GFX_banner>>)>>}

\* [readable, lines, nl] of the other files
CodeBodies ==
    {<<TRUE, <<<<Icon(GFX_x)>>>>, TRUE>>,
     <<TRUE, <<<<Icon(banner)>>>>, TRUE>>,
     <<TRUE, <<<<Icon(GFX_x_big)>>>>, TRUE>>,
     <<TRUE, <<<<Icon(GFX_a_b)>>>>, TRUE>>,
     <<TRUE, <<<<Icon(GFX_x)>>, <<Size100>>>>, FALSE>>,
     <<TRUE, <<<<Icon(GFX_banner), Comment(GFX_x)>>>>, FALSE>>,
     <<FALSE, <<<<Icon(GFX_x_big)>>>>, TRUE>>}

\* the mod folder holds at most MaxCode files that are not .gfx files
MaxCode == 2

CodePath(i) == CASE i = 1 -> "u1.txt" [] i = 2 -> "u2.txt" [] i = 3 -> "u3.txt" [] OTHER -> "u.txt"

RECURSIVE CodeLists(_)
CodeLists(n) ==
    IF n = 0 THEN {<<>>}
    ELSE CodeLists(n - 1)
         \cup {Append(l, ModFile(CodePath(Len(l) + 1), "txt", b[1], b[2], b[3])) :
                   l \in {c \in CodeLists(n - 1) : Len(c) = n - 1}, b \in CodeBodies}

ModFolders == {g \o c : g \in GfxSets, c \in CodeLists(MaxCode)}

\* scan_gfx_files is not called again once a name has MaxEntries recorded files
MaxEntries == 3
ScanAllowed ==
    \A name \in DOMAIN duplicate_definitions : Len(duplicate_definitions[name]) < MaxEntries

\* run_full_analysis is not called while MaxPending signals wait for the main thread
MaxPending == 1

IdleParsers ==
    /\ gui_file = File("missing", <<>>)
    /\ InitParser
    /\ IdleCaller
    /\ IdleExtract
    /\ IdleScripted

parserVars == <<extractVars, guiVars, scriptedVars, callerVars>>

----------------------------------------------------------------------------
(* Specification SpecAnalysis: the mod folder is scanned and analysed, one   *)
(* worker at a time and no scan while a worker runs                          *)

InitAnalysis ==
    /\ mod_files \in ModFolders
    /\ InitGFXManager
    /\ IdleParsers

NoWorker == pc \in {"none", "done"}

NextAnalysis ==
    \/ NoWorker /\ ScanAllowed /\ ScanGfxFiles /\ UNCHANGED parserVars
    \/ NoWorker /\ Len(queue) < MaxPending /\ RunFullAnalysis /\ UNCHANGED parserVars
    \/ RunStart /\ UNCHANGED parserVars
    \/ RunDuplicates /\ UNCHANGED parserVars
    \/ RunScanFile /\ UNCHANGED parserVars
    \/ RunClassify /\ UNCHANGED parserVars
    \/ RunFinish /\ UNCHANGED parserVars
    \/ SetValue /\ UNCHANGED parserVars
    \/ OnAnalysisComplete /\ UNCHANGED parserVars

SpecAnalysis == InitAnalysis /\ [][NextAnalysis]_vars

\* the worker thread is scheduled and the event loop of the main thread runs
FairAnalysis ==
    /\ WF_vars(RunStart /\ UNCHANGED parserVars)
    /\ WF_vars(RunDuplicates /\ UNCHANGED parserVars)
    /\ WF_vars(RunScanFile /\ UNCHANGED parserVars)
    /\ WF_vars(RunClassify /\ UNCHANGED parserVars)
    /\ WF_vars(RunFinish /\ UNCHANGED parserVars)
    /\ WF_vars(SetValue /\ UNCHANGED parserVars)
    /\ WF_vars(OnAnalysisComplete /\ UNCHANGED parserVars)

\* a mod folder family for the course of a run rather than for its result
CompletionFolders ==
    {g \o c : g \in {<<GfxFile("a.gfx", <<GFX_x>>)>>,
                     <<GfxFile("a.gfx", <<GFX_x>>), GfxFile("b.gfx", <<GFX_x_big>>)>>},
              c \in {l \in CodeLists(MaxCode) :
                        \A i \in 1..Len(l) :
                            l[i].lines \in {<<<<Icon(GFX_x)>>, <<Size100>>>>,
                                            <<<<Icon(GFX_x_big)>>>>}}}

InitCompletion ==
    /\ mod_files \in CompletionFolders
    /\ InitGFXManager
    /\ IdleParsers

SpecCompletion == InitCompletion /\ [][NextAnalysis]_vars /\ FairAnalysis

----------------------------------------------------------------------------
(* Specification SpecConcurrent: the main thread scans while a worker runs *)

ConcurrentFolders ==
    {g \o c : g \in {<<GfxFile("a.gfx", <<GFX_x>>)>>,
                     <<GfxFile("a.gfx", <<GFX_x>>), GfxFile("b.gfx", <<GFX_x_big>>)>>},
              c \in {l \in CodeLists(MaxCode) :
                        \A i \in 1..Len(l) :
                            l[i].lines \in {<<<<Icon(GFX_x)>>>>, <<<<Icon(GFX_x_big)>>>>}}}

InitConcurrent ==
    /\ mod_files \in ConcurrentFolders
    /\ InitGFXManager
    /\ IdleParsers

NextConcurrent ==
    \/ ScanAllowed /\ ScanBegin /\ UNCHANGED parserVars
    \/ ScanStep /\ UNCHANGED parserVars
    \/ NoWorker /\ Len(queue) < MaxPending /\ RunFullAnalysis /\ UNCHANGED parserVars
    \/ RunStart /\ UNCHANGED parserVars
    \/ RunDuplicates /\ UNCHANGED parserVars
    \/ RunScanFile /\ UNCHANGED parserVars
    \/ RunClassify /\ UNCHANGED parserVars
    \/ RunFinish /\ UNCHANGED parserVars
    \/ SetValue /\ UNCHANGED parserVars
    \/ OnAnalysisComplete /\ UNCHANGED parserVars

SpecConcurrent == InitConcurrent /\ [][NextConcurrent]_vars

----------------------------------------------------------------------------
(* Specification SpecSession: one HOI4GUIParser and one ScriptedGUIParser    *)
(* are used for one file after another, the definitions being handed over   *)
(* at any moment between the calls                                           *)

Big == <<Quoted("name", "big"), Pos(0, 0), SizeT(1024, 768)>>

SessionGuiFiles ==
    {GuiTypes(Block("containerWindowType", Big, Block("iconType", IconA, <<>>))),
     GuiTypes(Block("containerWindowType", Unsized, Block("buttonType", OkButton, <<>>))),
     GuiTypes(Block("containerWindowType", Main, Block("buttonType", OkButton, <<>>))),
     File("missing", <<>>),
     File("ok", <<NL, NL>>),
     File("ok", <<Open("foo"), Bare("bar", "1"), RB>>)}

SessionScriptedFiles ==
    {ScriptedGui(Definition("m1", WindowName("main")
                                  \o Lines("triggers", Entry("ok_button_visible", HasFlag)))),
     ScriptedGui(Definition("m4", WindowName("c") \o Entry("visible", IsAi))),
     File("missing", <<>>),
     File("ok", <<Open("foo"), Bare("bar", "1"), RB>>)}

\* parse_file(file_path) of the HOI4GUIParser, for any file
ParseGuiFile ==
    \E file \in SessionGuiFiles :
        \E after \in {parse_file(Self, file)} :
            /\ gui_file' = file
            /\ elements' = after.elements
            /\ parsed_elements' = after.parsed_elements
            /\ window_size' = after.window_size
            /\ parse_errors' = after.parse_errors
            /\ returned' = after.returned
            /\ UNCHANGED scripted_gui_data

\* parse_file(file_path) of the ScriptedGUIParser, for any file
ParseScriptedFile ==
    \E file \in SessionScriptedFiles :
        \E after \in {ScriptedGUIParser_parse_file(
                          [scripted_guis |-> scripted_guis,
                           parse_errors |-> scripted_parse_errors,
                           returned |-> scripted_returned], file)} :
            /\ scripted_file' = file
            /\ scripted_guis' = after.scripted_guis
            /\ scripted_parse_errors' = after.parse_errors
            /\ scripted_returned' = after.returned

InitSession ==
    /\ gui_file = File("missing", <<>>)
    /\ InitParser
    /\ IdleScripted
    /\ IdleCaller
    /\ IdleAnalysis
    /\ IdleExtract

NextSession ==
    \/ ParseGuiFile /\ UNCHANGED <<extractVars, scriptedVars, callerVars, analysisVars>>
    \/ ParseScriptedFile /\ UNCHANGED <<extractVars, guiVars, callerVars, analysisVars>>
    \/ SetScriptedGuiData /\ UNCHANGED <<extractVars, scriptedVars, analysisVars>>

SpecSession == InitSession /\ [][NextSession]_vars

----------------------------------------------------------------------------
(* Specification SpecProperty: the two _extract_property methods on bounded  *)
(* texts that give the property name in quoted and in bare form              *)

MaxPropLen == 3

PropertyValues == {"main", "a b", ""}

PropertyAlphabet ==
    {Quoted("name", s) : s \in PropertyValues} \cup {Bare("name", "x1"), Word("A"), NL}

InitProperty ==
    /\ content \in Texts(PropertyAlphabet, MaxPropLen)
    /\ called = {}
    /\ blocks = <<>>
    /\ simple_blocks = <<>>
    /\ background_sprite = None
    /\ property_value = None
    /\ scripted_property_value = None
    /\ extracted_definitions = <<>>
    /\ container_element = None
    /\ gui_file = File("missing", <<>>)
    /\ InitParser
    /\ IdleCaller
    /\ IdleAnalysis
    /\ IdleScripted

ExtractProperty ==
    /\ "property" \notin called
    /\ property_value' = _extract_property(content, "name")
    /\ called' = called \cup {"property"}
    /\ UNCHANGED <<content, blocks, simple_blocks, background_sprite, scripted_property_value,
                   extracted_definitions, container_element, guiVars, scriptedVars, callerVars, analysisVars>>

ScriptedExtractProperty ==
    /\ "scripted_property" \notin called
    /\ scripted_property_value' = ScriptedGUIParser_extract_property(content, "name")
    /\ called' = called \cup {"scripted_property"}
    /\ UNCHANGED <<content, blocks, simple_blocks, background_sprite, property_value,
                   extracted_definitions, container_element, guiVars, scriptedVars, callerVars, analysisVars>>

NextProperty == ExtractProperty \/ ScriptedExtractProperty

SpecProperty == InitProperty /\ [][NextProperty]_vars

----------------------------------------------------------------------------
(* Specification SpecUnclosed: the block extractors and                      *)
(* _extract_gui_definitions on bounded texts with two block names, closed    *)
(* and unclosed                                                              *)

MaxUnclosedLen == 6

UnclosedAlphabet == {Open("tag"), Open("b"), RB, Word("A")}

InitUnclosed ==
    /\ content \in Texts(UnclosedAlphabet, MaxUnclosedLen)
    /\ called = {}
    /\ blocks = <<>>
    /\ simple_blocks = <<>>
    /\ background_sprite = None
    /\ property_value = None
    /\ scripted_property_value = None
    /\ extracted_definitions = <<>>
    /\ container_element = None
    /\ gui_file = File("missing", <<>>)
    /\ InitParser
    /\ IdleCaller
    /\ IdleAnalysis
    /\ IdleScripted

ExtractGuiDefinitions ==
    /\ "definitions" \notin called
    /\ extracted_definitions' = _extract_gui_definitions(content)
    /\ called' = called \cup {"definitions"}
    /\ UNCHANGED <<content, blocks, simple_blocks, background_sprite, property_value,
                   scripted_property_value, container_element, guiVars, scriptedVars,
                   callerVars, analysisVars>>

NextUnclosed == ExtractBlockContent \/ ExtractBlockContentSimple \/ ExtractGuiDefinitions

SpecUnclosed == InitUnclosed /\ [][NextUnclosed]_vars

----------------------------------------------------------------------------
(* Specification SpecNested: a new HOI4GUIParser parses one file whose       *)
(* containers are nested up to MaxDepth deep, with siblings of equal key     *)

MaxDepth == 3

Top == <<Quoted("name", "top")>>

NestedProps == {Main, Unsized, Top}

\* containers nested n deep; the innermost holds nothing or an icon, any other
\* holds a container, alone or after an empty container named main
RECURSIVE Nested(_)
Nested(n) ==
    IF n = 0 THEN {<<>>, Block("iconType", IconA, <<>>)}
    ELSE {Block("containerWindowType", props, before \o inner) :
              props \in NestedProps,
              before \in {<<>>, Block("containerWindowType", Main, <<>>)},
              inner \in Nested(n - 1)}

NestedFiles == {GuiTypes(body) : body \in Nested(MaxDepth)}

InitNested ==
    /\ gui_file \in NestedFiles
    /\ InitParser
    /\ IdleCaller
    /\ IdleAnalysis
    /\ IdleExtract
    /\ IdleScripted

NextNested == ParseFile /\ UNCHANGED <<extractVars, scriptedVars, callerVars, analysisVars>>

SpecNested == InitNested /\ [][NextNested]_vars

----------------------------------------------------------------------------
(* Specification SpecApply: any caller hands a list of definitions with      *)
(* triggers and effects to set_scripted_gui_data, then a GUI file with a     *)
(* container, a button, an icon and a window is parsed                       *)

Triggers1 == Some(DictSet(EmptyDict, "ok_button_visible", <<HasFlag>>))
Triggers3 == Some(DictSet(Triggers1[1], "ok_button_click_enabled", <<IsAi>>))
Triggers4 == Some(DictSet(EmptyDict, "icon_a_visible", <<Always>>))
Effects1 == Some(DictSet(EmptyDict, "ok_button_click", <<AddOne>>))
Effects2 == Some(DictSet(EmptyDict, "icon_a_click", <<AddOne>>))

Mark(s) == Some(<<Word(s)>>)

ApplyDefinitions ==
    {ScriptedGUIDefinition("l3", "w2", None, Triggers3, None, None, Mark("l3")),
     ScriptedGUIDefinition("l4", "w2", None, None, Effects1, None, Mark("l4")),
     ScriptedGUIDefinition("l5", "w3", None, Triggers1, Effects1, None, Mark("l5")),
     ScriptedGUIDefinition("l8", "main", Some(IsAi), Triggers4, Effects2, Props2, Mark("l8")),
     ScriptedGUIDefinition("l9", "w", Some(Always), Triggers1, None, Props1, None)}

\* a list passed to set_scripted_gui_data holds at most MaxApplyList definitions
MaxApplyList == 2

RECURSIVE ApplyLists(_)
ApplyLists(n) ==
    IF n = 0 THEN {<<>>}
    ELSE ApplyLists(n - 1) \cup {Append(l, d) : l \in ApplyLists(n - 1), d \in ApplyDefinitions}

ApplyGuiFiles ==
    {GuiTypes(Block("containerWindowType", Main,
                    Block("buttonType", OkButton, <<>>) \o Block("iconType", IconA2, <<>>))
              \o Block("windowType", Win, <<>>)),
     GuiTypes(Block("windowType", Win, <<>>) \o Block("checkboxType", OkButton, <<>>)
              \o Block("containerWindowType", Unsized,
                       Block("instantTextBoxType", OkButton, <<>>))),
     GuiTypes(Block("editboxType", IconA, <<>>) \o Block("scrollbarType", OkButton, <<>>)
              \o Block("gridBoxType", Win, <<>>) \o Block("listboxType", IconA, <<>>))}

\* a call of set_scripted_gui_data with a list of the model
SetApplyDefinitions ==
    \E guis \in ApplyLists(MaxApplyList) :
        /\ scripted_gui_definitions' = Some(guis)
        /\ scripted_gui_data' = set_scripted_gui_data(guis)
        /\ UNCHANGED <<gui_file, elements, parsed_elements, window_size, parse_errors, returned,
                       widgetVars>>

InitApply ==
    /\ gui_file \in ApplyGuiFiles
    /\ InitParser
    /\ IdleCaller
    /\ IdleAnalysis
    /\ IdleExtract
    /\ IdleScripted

NextApply ==
    \/ SetApplyDefinitions /\ UNCHANGED <<extractVars, scriptedVars, analysisVars>>
    \/ ParseFile /\ UNCHANGED <<extractVars, scriptedVars, callerVars, analysisVars>>

SpecApply == InitApply /\ [][NextApply]_vars

----------------------------------------------------------------------------
(* Specification SpecWidget: a GUIPreviewWidget whose load_gui_file and      *)
(* load_scripted_gui_file are called in any order with files of the session  *)

\* the rest of load_gui_file once parse_file has returned: the canvas is set
\* unless the parse returned no element
ShowParsed(file, after) ==
    /\ current_file_path' = Some(file)
    /\ gui_file' = file
    /\ elements' = after.elements
    /\ parsed_elements' = after.parsed_elements
    /\ window_size' = after.window_size
    /\ parse_errors' = after.parse_errors
    /\ returned' = after.returned
    /\ IF after.returned[1] = <<>>
       THEN UNCHANGED <<canvas_elements, canvas_window_size>>
       ELSE /\ canvas_elements' = after.returned[1]
            /\ canvas_window_size' = after.window_size

\* GUIPreviewWidget.load_gui_file(file_path) with a path: the path is recorded
\* and the file is parsed
LoadGuiFile ==
    \E file \in SessionGuiFiles :
        \E after \in {parse_file(Self, file)} :
            /\ ShowParsed(file, after)
            /\ UNCHANGED <<scripted_gui_data, scriptedVars, scripted_gui_definitions>>

\* GUIPreviewWidget.load_scripted_gui_file(file_path) with a path: nothing but
\* the scripted parser changes when it returns no definition; otherwise the
\* definitions are installed and a loaded GUI file is loaded again
LoadScriptedGuiFile ==
    \E file \in SessionScriptedFiles :
        \E found \in {ScriptedGUIParser_parse_file(
                          [scripted_guis |-> scripted_guis,
                           parse_errors |-> scripted_parse_errors,
                           returned |-> scripted_returned], file)} :
            /\ scripted_file' = file
            /\ scripted_guis' = found.scripted_guis
            /\ scripted_parse_errors' = found.parse_errors
            /\ scripted_returned' = found.returned
            /\ IF found.returned[1] = <<>>
               THEN UNCHANGED <<guiVars, callerVars>>
               ELSE \E data \in {set_scripted_gui_data(found.returned[1])} :
                        /\ scripted_gui_definitions' = found.returned
                        /\ scripted_gui_data' = data
                        /\ IF current_file_path = None
                           THEN UNCHANGED <<gui_file, elements, parsed_elements, window_size,
                                            parse_errors, returned, widgetVars>>
                           ELSE \E after \in {parse_file([Self EXCEPT !.scripted_gui_data = data],
                                                         current_file_path[1])} :
                                    ShowParsed(current_file_path[1], after)

InitWidget ==
    /\ gui_file = File("missing", <<>>)
    /\ InitParser
    /\ IdleScripted
    /\ IdleCaller
    /\ IdleAnalysis
    /\ IdleExtract

NextWidget ==
    \/ LoadGuiFile /\ UNCHANGED <<extractVars, analysisVars>>
    \/ LoadScriptedGuiFile /\ UNCHANGED <<extractVars, analysisVars>>

SpecWidget == InitWidget /\ [][NextWidget]_vars

----------------------------------------------------------------------------
(* Specification SpecOwn: _parse_container_window_element on the content of  *)
(* a container block with its own declarations and nested child blocks       *)

\* the declarations a container makes itself: a name or none, a position or none, a size or none
OwnNames == {<<>>, <<Quoted("name", "top")>>, <<Bare("name", "x1")>>}
OwnPositions == {<<>>, <<Pos(1, 2)>>}
OwnSizes == {<<>>, <<SizeT(800, 600)>>}
OwnDeclarations == {n \o p \o s : n \in OwnNames, p \in OwnPositions, s \in OwnSizes}

\* nested child blocks with a quoted name and a position, a size, both or neither
ChildBlocks ==
    {Block("iconType", <<Quoted("name", "icon_a")>> \o p \o s, <<>>) :
         p \in {<<>>, <<Pos(10, 10)>>}, s \in {<<>>, <<SizeT(30, 40)>>}}

\* a container block holds at most MaxKids nested child blocks
MaxKids == 1

RECURSIVE ChildRuns(_)
ChildRuns(n) ==
    IF n = 0 THEN {<<>>}
    ELSE ChildRuns(n - 1) \cup {r \o b : r \in ChildRuns(n - 1), b \in ChildBlocks}

\* the children before the container's own declarations, and the children after them
ContainerContents ==
    {before \o own \o after :
         before \in ChildRuns(MaxKids), own \in OwnDeclarations,
         after \in ChildRuns(MaxKids)}

InitOwn ==
    /\ content \in {c \in ContainerContents :
                       Cardinality({i \in 1..Len(c) : c[i].k = "open"}) <= MaxKids}
    /\ called = {}
    /\ blocks = <<>>
    /\ simple_blocks = <<>>
    /\ background_sprite = None
    /\ property_value = None
    /\ scripted_property_value = None
    /\ extracted_definitions = <<>>
    /\ container_element = None
    /\ gui_file = File("missing", <<>>)
    /\ InitParser
    /\ IdleCaller
    /\ IdleAnalysis
    /\ IdleScripted

\* _parse_container_window_element(content)
ParseContainerWindowElement ==
    /\ "container" \notin called
    /\ container_element' = _parse_container_window_element(content)
    /\ called' = called \cup {"container"}
    /\ UNCHANGED <<content, blocks, simple_blocks, background_sprite, property_value,
                   scripted_property_value, extracted_definitions, guiVars, scriptedVars,
                   callerVars, analysisVars>>

NextOwn == ParseContainerWindowElement \/ ExtractProperty

SpecOwn == InitOwn /\ [][NextOwn]_vars

----------------------------------------------------------------------------
(* Claim formulas for the block extractor *)

RECURSIVE Depth(_)
Depth(s) == IF s = <<>> THEN 0 ELSE Depth(SubSeq(s, 1, Len(s) - 1)) + BraceDelta(s[Len(s)])

\* every prefix of s has non-negative brace depth and s ends at depth 0
Balanced(s) ==
    /\ \A n \in 1..Len(s) : Depth(SubSeq(s, 1, n)) >= 0
    /\ Depth(s) = 0

HasTag(s) == \E n \in 1..Len(s) : OpensBlock(s[n], "tag", FALSE)

\* content = pre tag = { A { B } C } suf, the block opening at i and closing at e
IsTagBlockAt(i, e) ==
    /\ content[i] = Open("tag")
    /\ content[e] = RB
    /\ ~HasTag(SubSeq(content, 1, i - 1))
    /\ ~HasTag(SubSeq(content, e + 1, Len(content)))
    /\ Balanced(SubSeq(content, i + 1, e - 1))
    /\ \E l \in i + 1 .. e - 1 : content[l].k = "lb"

\* C1: for an input whose only top-level tag block is  tag = { A { B } C },
\* both extractors return exactly one match, the text strictly between the
\* opening brace and its matching closing brace, nested braces included
C1_BraceMatching ==
    \A i \in 1..Len(content) : \A e \in i + 1 .. Len(content) :
        IsTagBlockAt(i, e) =>
            /\ "gui" \in called => blocks = <<SubSeq(content, i + 1, e - 1)>>
            /\ "scripted" \in called => simple_blocks = <<SubSeq(content, i + 1, e - 1)>>

\* the input  tag = { A { B } A }  after both extractors have run
C1_Witness ==
    /\ content = <<Open("tag"), Word("A"), LB, Word("A"), RB, Word("A"), RB>>
    /\ called = {"gui", "scripted"}
    /\ blocks = <<<<Word("A"), LB, Word("A"), RB, Word("A")>>>>

----------------------------------------------------------------------------
(* Claim formulas for HOI4GUIParser on one file (SpecGui) *)

\* parse_file has returned without recording an error
Successful == returned # None /\ parse_errors = <<>>

Count(seq, P(_)) == Cardinality({k \in 1..Len(seq) : P(seq[k])})

\* C2: after parse_file no two elements of the returned list share the
\* 4-tuple (element_type, name, position.x, position.y), whatever their type
C2_DedupAllTypes ==
    returned # None =>
        \A i \in 1..Len(returned[1]) : \A j \in (i + 1)..Len(returned[1]) :
            _get_element_key(returned[1][i]) # _get_element_key(returned[1][j])

\* the lexemes of text from i on are the iconType block with these properties
IconBlockAt(text, i, props) ==
    /\ i + Len(props) + 1 <= Len(text)
    /\ SubSeq(text, i, i + Len(props) + 1) = Block("iconType", props, <<>>)

\* the file holds two syntactically distinct iconType blocks named icon_a at (10,10)
TwoIconA(text) ==
    /\ \E i \in 1..Len(text) : IconBlockAt(text, i, IconA)
    /\ \E i \in 1..Len(text) : IconBlockAt(text, i, IconA2)

\* lexeme i stands inside a closed containerWindowType block
InsideContainer(text, i) ==
    \E c \in 1..(i - 1) : \E e \in (i + 1)..Len(text) :
        /\ text[c] = Open("containerWindowType")
        /\ text[e] = RB
        /\ Balanced(SubSeq(text, c + 1, e - 1))

IsIconA(element) == _get_element_key(element) = <<"iconType", "icon_a", 10, 10>>

\* C3 as stated: two distinct iconType blocks named icon_a at (10,10) yield
\* exactly one element, wherever in guiTypes the two blocks stand
C3_OneIconAnywhere ==
    (returned # None /\ TwoIconA(gui_file.text)) => Count(returned[1], IsIconA) = 1

\* C3 amended: they yield exactly one element when at least one of the two
\* stands inside a closed containerWindowType block, and none when both stand
\* directly under guiTypes
C3_OneIconInContainer ==
    (returned # None /\ TwoIconA(gui_file.text)) =>
        Count(returned[1], IsIconA) =
            IF \E i \in 1..Len(gui_file.text) :
                   /\ IconBlockAt(gui_file.text, i, IconA) \/ IconBlockAt(gui_file.text, i, IconA2)
                   /\ InsideContainer(gui_file.text, i)
            THEN 1 ELSE 0

C3_Witness ==
    /\ gui_file = GuiTypes(Block("containerWindowType", Main,
                                 Block("iconType", IconA, <<>>) \o Block("iconType", IconA2, <<>>)))
    /\ returned # None
    /\ Count(returned[1], IsIconA) = 1
    /\ Len(returned[1]) = 2

\* a lexeme from which a name can be extracted
GivesName(t) ==
    t.key = "name" /\ ((t.k = "quoted" /\ t.s # " ") \/ t.k \in {"bare", "open"})

\* index of the first containerWindowType or windowType block of the text
FirstCanvasBlock(text) ==
    FirstIdx(text, LAMBDA t : t.k = "open" /\ t.key \in {"containerWindowType", "windowType"})

\* the size the block opening at i declares before its first nested block
DeclaredSize(text, i) ==
    LET stop == {j \in (i + 1)..Len(text) : text[j].k \in {"open", "lb", "rb"}}
        last == IF stop = {} THEN Len(text) ELSE (CHOOSE j \in stop : \A n \in stop : j <= n) - 1
        sizes == {n \in (i + 1)..last : text[n].k = "size"}
    IN  IF sizes = {} THEN None
        ELSE LET n == CHOOSE n \in sizes : \A m \in sizes : n <= m
             IN  Some(<<text[n].x, text[n].y>>)

\* the block opening at i gives a name before its first nested block
DeclaresName(text, i) ==
    \E n \in (i + 1)..Len(text) :
        /\ GivesName(text[n])
        /\ \A j \in (i + 1)..n : text[j].k \notin {"open", "lb", "rb"}

ExampleC4 ==
    GuiTypes(Block("containerWindowType", Main, <<>>) \o Block("windowType", Win, <<>>))

ExampleC6 == GuiTypes(Block("containerWindowType", Main, <<>>))

\* C6: guiTypes = { containerWindowType = { name = "main" position = { x = 0
\* y = 0 } size = { width = 800 height = 600 } } } parses to the one element
\* main of type containerWindowType at (0,0) of size (800,600), and the canvas
\* size is (800,600)
C6_EndToEnd ==
    (gui_file = ExampleC6 /\ returned # None) =>
        /\ returned[1] = <<GUIElement("main", "containerWindowType", <<0, 0>>,
                                       Some(<<800, 600>>), None)>>
        /\ window_size = <<800, 600>>
        /\ parse_errors = <<>>

C6_Witness ==
    /\ gui_file = ExampleC6
    /\ returned # None
    /\ Len(returned[1]) = 1

\* C8: every element parse_file returns has a non-empty name; a file whose
\* blocks give no name yields no element, and dropping them records no error
C8_NamedElements ==
    returned # None =>
        /\ \A k \in 1..Len(returned[1]) : returned[1][k].name # ""
        /\ (gui_file.status = "ok" /\ RootBlock(Unlines(_remove_comments(gui_file.text)), "guiTypes") # None
            /\ \A k \in 1..Len(gui_file.text) : ~GivesName(gui_file.text[k]))
           => (returned[1] = <<>> /\ parse_errors = <<>>)

\* two blocks without a name and one with a blank name were parsed
C8_Witness ==
    /\ gui_file = GuiTypes(Block("containerWindowType", Main, Block("iconType", Blank, <<>>))
                           \o Block("checkboxType", NoName, <<>>))
    /\ returned # None
    /\ Len(returned[1]) = 1
    /\ parse_errors = <<>>

----------------------------------------------------------------------------
(* Claim formulas for _extract_background_sprite (SpecSprite) *)

\* background = { key = "X" ... }  starts at lexeme i of content
BlockFormAt(i, key) ==
    /\ content[i] = Open("background")
    /\ i + 1 <= Len(content)
    /\ content[i + 1].k = "quoted" /\ content[i + 1].key = key
    /\ \E j \in (i + 2)..Len(content) : content[j] = RB

Least(S) == CHOOSE i \in S : \A j \in S : i <= j

\* C5: _extract_background_sprite returns the X of the first of the forms
\* background = { spriteType = X }, background = { quadTextureSprite = X },
\* background = X that matches the text; for
\* background = { spriteType = "A" quadTextureSprite = "B" } it returns A
C5_SpritePrecedence ==
    LET form1 == {i \in 1..Len(content) : BlockFormAt(i, "spriteType")}
        form2 == {i \in 1..Len(content) : BlockFormAt(i, "quadTextureSprite")}
        form3 == {i \in 1..Len(content) : content[i].key = "background"}
    IN  "sprite" \in called =>
            /\ background_sprite =
                   IF form1 # {} THEN Some(content[Least(form1) + 1].s)
                   ELSE IF form2 # {} THEN Some(content[Least(form2) + 1].s)
                   ELSE IF form3 # {}
                        THEN Some(IF content[Least(form3)].k = "open" THEN "{"
                                  ELSE content[Least(form3)].s)
                   ELSE None
            /\ content = <<Open("background"), Quoted("spriteType", "A"),
                           Quoted("quadTextureSprite", "B"), RB>>
               => background_sprite = Some("A")

\* both block forms stand in the text, the quadTextureSprite form first
C5_Witness ==
    /\ content = <<Open("background"), Quoted("quadTextureSprite", "B"), RB,
                   Open("background"), Quoted("spriteType", "A"), RB>>
    /\ "sprite" \in called
    /\ background_sprite = Some("A")

----------------------------------------------------------------------------
(* Claim formulas for the failure paths of both parsers (SpecMerge) *)

\* lexeme k of the text stands behind a comment sign on its line
Commented(text, k) ==
    \E h \in 1..(k - 1) : text[h] = Hash /\ \A j \in h..k : text[j] # NL

\* the file is missing, undecodable, empty or white space, or has no root block
Rejected(file, root) ==
    \/ file.status \in {"missing", "undecodable"}
    \/ \A k \in 1..Len(file.text) : file.text[k] = NL
    \/ ~\E k \in 1..Len(file.text) : file.text[k] = Open(root) /\ ~Commented(file.text, k)

\* C7: on a missing file, an undecodable file, an empty or white-space file
\* and a file without its root block, parse_file of either parser returns the
\* empty list and leaves parse_errors non-empty; for the file  foo = { bar = 1 }
\* the message says the block was not found
C7_FailureSemantics ==
    /\ (returned # None /\ Rejected(gui_file, "guiTypes")) =>
           returned = Some(<<>>) /\ parse_errors # <<>>
    /\ (scripted_returned # None /\ Rejected(scripted_file, "scripted_gui")) =>
           scripted_returned = Some(<<>>) /\ scripted_parse_errors # <<>>
    /\ (returned # None /\ gui_file = File("ok", <<Open("foo"), Bare("bar", "1"), RB>>)) =>
           parse_errors = <<GuiTypesNotFound>>
    /\ (scripted_returned # None
        /\ scripted_file = File("ok", <<Open("foo"), Bare("bar", "1"), RB>>)) =>
           scripted_parse_errors = <<ScriptedGuiNotFound>>

C7_Witness ==
    /\ gui_file = File("ok", <<Open("foo"), Bare("bar", "1"), RB>>)
    /\ returned = Some(<<>>)
    /\ parse_errors = <<GuiTypesNotFound>>
    /\ scripted_file = File("ok", <<NL, NL>>)
    /\ scripted_returned = Some(<<>>)
    /\ scripted_parse_errors = <<FileIsEmpty>>

----------------------------------------------------------------------------
(* Claim formulas for ScriptedGUIParser on one file (SpecScripted) *)

\* a scripted_gui file without comments whose braces balance, parsed without error
ParsedScripted ==
    /\ scripted_returned # None
    /\ scripted_parse_errors = <<>>
    /\ Balanced(scripted_file.text)
    /\ \A k \in 1..Len(scripted_file.text) : scripted_file.text[k] # Hash

\* lexemes i..e of the text are a block  identifier = { ... }  directly under the root
TopBlockAt(text, i, e) ==
    /\ text[i].k = "open"
    /\ text[e] = RB
    /\ Balanced(SubSeq(text, i + 1, e - 1))
    /\ Depth(SubSeq(text, 1, i - 1)) = 1

\* the block has a window_name property with a non-empty value
HasWindowName(text, i, e) ==
    \E k \in (i + 1)..(e - 1) :
        /\ text[k].key = "window_name"
        /\ text[k].k \in {"quoted", "bare"}
        /\ Strip(text[k].s) # ""

Produced(name) ==
    \E n \in 1..Len(scripted_returned[1]) : scripted_returned[1][n].name = name

----------------------------------------------------------------------------
(* Claim formulas for the merge (SpecMerge) *)

\* the definition has the trigger  ok_button_visible = { has_flag = ready }
HasVisibleTrigger(d) ==
    /\ d.triggers # None
    /\ "ok_button_visible" \in DOMAIN d.triggers[1]
    /\ d.triggers[1]["ok_button_visible"] = <<HasFlag>>

HasEnabledTrigger(d) ==
    d.triggers # None /\ "ok_button_click_enabled" \in DOMAIN d.triggers[1]

\* the definition has a trigger or an effect that names ok_button
NamesOkButton(d) ==
    \/ HasEnabledTrigger(d)
    \/ d.triggers # None /\ "ok_button_visible" \in DOMAIN d.triggers[1]
    \/ d.effects # None /\ "ok_button_click" \in DOMAIN d.effects[1]

IsOkButton(element) == element.element_type = "buttonType" /\ element.name = "ok_button"

Installed(P(_)) == \E i \in 1..Len(scripted_gui_data) : P(scripted_gui_data[i])

C10_Unconditional ==
    Installed(HasVisibleTrigger) =>
        \A k \in 1..Len(returned[1]) :
            IsOkButton(returned[1][k]) =>
                /\ returned[1][k].visible_condition = Some(<<HasFlag>>)
                /\ returned[1][k].is_dynamic

\* C10 as stated: when a definition with the trigger ok_button_visible =
\* { has_flag = ready } is installed, parse_file leaves the button ok_button
\* with visible_condition  has_flag = ready  and is_dynamic true, whatever
\* other definitions are installed
C10_WhateverIsInstalled == [][ParseFile => C10_Unconditional']_vars

C10_FirstMatch ==
    Installed(HasVisibleTrigger) =>
        \A k \in 1..Len(returned[1]) :
            IsOkButton(returned[1][k]) =>
                /\ returned[1][k].is_dynamic
                /\ LET first == Least({i \in 1..Len(scripted_gui_data) :
                                          NamesOkButton(scripted_gui_data[i])})
                   IN  (/\ HasVisibleTrigger(scripted_gui_data[first])
                        /\ ~HasEnabledTrigger(scripted_gui_data[first]))
                       => returned[1][k].visible_condition = Some(<<HasFlag>>)

\* C10 amended: with such a definition installed, parse_file leaves the button
\* ok_button with is_dynamic true; its visible_condition is  has_flag = ready
\* when the first installed definition that names ok_button in a trigger or an
\* effect has that trigger and no trigger ok_button_click_enabled
C10_FirstInstalledMatch == [][ParseFile => C10_FirstMatch']_vars

\* two definitions are installed, the first has the trigger, the button was merged
C10_Witness ==
    /\ Len(scripted_gui_data) = 2
    /\ HasVisibleTrigger(scripted_gui_data[1])
    /\ NamesOkButton(scripted_gui_data[2])
    /\ returned # None
    /\ \E k \in 1..Len(returned[1]) :
           /\ IsOkButton(returned[1][k])
           /\ returned[1][k].visible_condition = Some(<<HasFlag>>)
           /\ returned[1][k].is_dynamic

----------------------------------------------------------------------------
(* C11: container merge.  After a parse, every containerWindowType element   *)
(* whose name is the window_name of a definition in the list passed to       *)
(* set_scripted_gui_data is dynamic, has the visible_condition of the LAST   *)
(* such definition of the list, and its properties hold every entry of that  *)
(* definition's properties; the index lookup and the scan over the installed *)
(* definitions select the same definition.                                   *)

LastFor(guis, name) ==
    guis[CHOOSE i \in 1..Len(guis) :
            /\ guis[i].window_name = name
            /\ \A j \in (i + 1)..Len(guis) : guis[j].window_name # name]

Targeted(guis, element) ==
    /\ element.element_type = "containerWindowType"
    /\ \E i \in 1..Len(guis) : guis[i].window_name = element.name

HoldsEntries(element, properties) ==
    properties # None =>
        \A key \in DOMAIN properties[1] :
            /\ element.properties # None
            /\ key \in DOMAIN element.properties[1]
            /\ element.properties[1][key] = properties[1][key]

C11_Merged ==
    (scripted_gui_definitions # None /\ returned # None) =>
        /\ \A k \in 1..Len(returned[1]) :
               Targeted(scripted_gui_definitions[1], returned[1][k]) =>
                   LET d == LastFor(scripted_gui_definitions[1], returned[1][k].name)
                   IN  /\ returned[1][k].is_dynamic
                       /\ returned[1][k].visible_condition = d.visible_condition
                       /\ HoldsEntries(returned[1][k], d.properties)
        /\ \A k \in 1..Len(returned[1]) :
               DataIndex(scripted_gui_data, returned[1][k].name)
                   = FirstIdx(scripted_gui_data,
                              LAMBDA d : d.window_name = returned[1][k].name)

C11_ContainerMerge == [][(UNCHANGED scripted_gui_data /\ ParseFile) => C11_Merged']_vars

\* the container main was merged from a list with two definitions for main
\* that differ in visible_condition, the last of them with properties
C11_Witness ==
    /\ scripted_gui_definitions # None
    /\ Len(scripted_gui_definitions[1]) = 2
    /\ scripted_gui_definitions[1][1].window_name = "main"
    /\ scripted_gui_definitions[1][2].window_name = "main"
    /\ scripted_gui_definitions[1][1].visible_condition = Some(IsAi)
    /\ scripted_gui_definitions[1][2].properties = Props2
    /\ returned # None
    /\ \E k \in 1..Len(returned[1]) :
           /\ returned[1][k].name = "main"
           /\ returned[1][k].element_type = "containerWindowType"
           /\ returned[1][k].visible_condition = Some(Always)
           /\ returned[1][k].properties = Props2

----------------------------------------------------------------------------
(* Claim formulas for the analyzer *)

Done == pc = "done"

\* the uncommented text of a readable file holds the name as a token
Mentions(file, name) ==
    /\ file.readable
    /\ \E i \in 1..Len(file.lines) :
           \E j \in 1..Len(CleanLine(file.lines[i])) :
               /\ CleanLine(file.lines[i])[j].k \in {"icon", "sprite"}
               /\ CleanLine(file.lines[i])[j].name = name

\* the uncommented text of a readable file holds  icon = name
Uses(file, name) ==
    /\ file.readable
    /\ \E i \in 1..Len(file.lines) :
           \E j \in 1..Len(CleanLine(file.lines[i])) :
               CleanLine(file.lines[i])[j] = Icon(name)

\* the .gfx files with a spriteType block of that name, in the order of the scan
Defines(file, name) ==
    /\ file.readable
    /\ \E i \in 1..Len(SpritesOfLines(file.lines)) : SpritesOfLines(file.lines)[i].name = name

DefiningFiles(name) ==
    LET files == SelectSeq(GfxFilesOf(mod_files), LAMBDA file : Defines(file, name))
    IN  [i \in 1..Len(files) |-> files[i].path]

Names ==
    {GFX_x, GFX_x_big, GFX_banner, banner, GFX_a_GFX_b, GFX_a_b}

(* C12: duplicate detection.  When a run of the worker is done, every name   *)
(* that more than one file of the mod folder defines is a key of the         *)
(* result's duplicate_definitions, with its defining files in discovery      *)
(* order.                                                                    *)
C12_DuplicatesReported ==
    Done =>
        \A name \in Names :
            Len(DefiningFiles(name)) > 1 =>
                /\ name \in DOMAIN results.duplicate_definitions
                /\ results.duplicate_definitions[name] = DefiningFiles(name)


(* C13: self-reference exclusion.  In the result of a run no file listed in  *)
(* usage_locations[n] is the file recorded as defining n; a name that only   *)
(* its own definition file mentions is not in used_gfx, and it is in         *)
(* orphaned_gfx unless a used name reconciles with it.                       *)

NoSelfUsage ==
    \A name \in DOMAIN results.usage_locations :
        name \in DOMAIN gfx_data =>
            \A k \in 1..Len(results.usage_locations[name]) :
                results.usage_locations[name][k] # gfx_data[name].file_source

\* of the files the worker scans, only the recorded definition file mentions the name
OnlySelfReferenced(name) ==
    /\ name \in DOMAIN gfx_data
    /\ \E k \in 1..Len(code_files) :
           /\ code_files[k].path = gfx_data[name].file_source
           /\ Mentions(code_files[k], name)
    /\ \A k \in 1..Len(code_files) :
           Mentions(code_files[k], name) => code_files[k].path = gfx_data[name].file_source

\* the claim as the spec states it: such a name is always reported orphaned
C13_OnlySelfIsOrphan ==
    Done =>
        /\ NoSelfUsage
        /\ \A name \in Names :
               OnlySelfReferenced(name) => name \in results.orphaned_gfx

C13_SelfReference ==
    Done =>
        /\ NoSelfUsage
        /\ \A name \in Names :
               OnlySelfReferenced(name) =>
                   /\ name \notin results.used_gfx
                   /\ ReconcilingWith(results, name) = {} => name \in results.orphaned_gfx

\* GFX_x is mentioned by its definition file alone and is reported orphaned,
\* while another name has a usage in a text file
C13_Witness ==
    /\ Done
    /\ OnlySelfReferenced(GFX_x)
    /\ GFX_x \in results.orphaned_gfx
    /\ results.used_gfx # {}

(* C14: fuzzy reconciliation.  When GFX_banner is defined and has no direct  *)
(* usage, and a file other than its definition file uses the name banner,    *)
(* GFX_banner is reconciled as used: it is not in orphaned_gfx.              *)
C14_BannerReconciled ==
    (/\ Done
     /\ GFX_banner \in DOMAIN gfx_data
     /\ GFX_banner \notin results.used_gfx
     /\ \E k \in 1..Len(code_files) :
            /\ Uses(code_files[k], banner)
            /\ code_files[k].path # gfx_data[GFX_banner].file_source)
        => GFX_banner \notin results.orphaned_gfx

(* C15: missing definitions.  A name that a scanned file of the corpus       *)
(* references and that is not a key of the definition table is in the        *)
(* result's missing_definitions.                                             *)
C15_MissingReported ==
    Done =>
        \A name \in Names :
            (/\ name \notin DOMAIN gfx_data
             /\ \E k \in 1..Len(code_files) : Uses(code_files[k], name))
                => name \in results.missing_definitions

(* C16: orphan classification.  A defined name is in orphaned_gfx exactly    *)
(* when it is not in used_gfx and no used name reconciles with it, two names *)
(* reconciling when they are equal after the GFX_ prefix is stripped from    *)
(* both or when one is a substring of the other; orphaned_gfx holds defined  *)
(* names only and none of used_gfx.                                          *)

\* the name without a leading GFX_
StripPrefix(name) == IF StartsWithGFX(name) THEN Tail(name) ELSE name

ReconcilesAsStated(gfx_name, used) ==
    \/ StripPrefix(gfx_name) = StripPrefix(used)
    \/ IsSubstring(gfx_name, used)
    \/ IsSubstring(used, gfx_name)

C16_OrphanExactly ==
    Done =>
        /\ \A name \in DOMAIN gfx_data :
               name \in results.orphaned_gfx <=>
                   /\ name \notin results.used_gfx
                   /\ \A used \in results.used_gfx : ~ReconcilesAsStated(name, used)
        /\ results.orphaned_gfx \subseteq DOMAIN gfx_data
        /\ results.orphaned_gfx \cap results.used_gfx = {}

(* C17: progress stream.  Every value the worker emits on progress_updated   *)
(* lies in 0..100 and the values never decrease.                             *)

ProgressValues ==
    LET sent == SelectSeq(emitted, LAMBDA signal : signal.sig = "progress_updated")
    IN  [k \in 1..Len(sent) |-> sent[k].value]

C17_ProgressMonotone ==
    /\ \A k \in 1..Len(ProgressValues) : ProgressValues[k] \in 0..100
    /\ \A k \in 1..(Len(ProgressValues) - 1) : ProgressValues[k] <= ProgressValues[k + 1]


(* C18: completion event.  A run emits analysis_complete at most once, as    *)
(* its last signal and right after progress 100, and a run that is done has  *)
(* emitted it; the result fields of the main window change only when the     *)
(* main thread handles an analysis_complete signal; every started run gets   *)
(* to its end.                                                               *)

IsComplete(signal) == signal.sig = "analysis_complete"

CompleteIsLast ==
    /\ \A k \in 1..Len(emitted) :
           IsComplete(emitted[k]) =>
               /\ k = Len(emitted)
               /\ k > 1
               /\ emitted[k - 1] = ProgressUpdated(100)
               /\ emitted[k].results = results
    /\ Done <=> (emitted # <<>> /\ IsComplete(emitted[Len(emitted)]))

ResultFields == <<orphaned_gfx, missing_definitions, used_gfx, usage_locations>>

ResultsOnlyOnComplete ==
    ResultFields' # ResultFields =>
        /\ queue # <<>>
        /\ IsComplete(Head(queue))
        /\ queue' = Tail(queue)
        /\ ResultFields' = <<Head(queue).results.orphaned_gfx,
                             Head(queue).results.missing_definitions,
                             Head(queue).results.used_gfx,
                             Head(queue).results.usage_locations>>

C18_Completion ==
    /\ []CompleteIsLast
    /\ [][ResultsOnlyOnComplete]_vars
    /\ (pc = "start") ~> Done

\* the main thread has taken over the result of a finished run that used a name
C18_Witness ==
    /\ Done
    /\ queue = <<>>
    /\ used_gfx # {}
    /\ used_gfx = results.used_gfx
    /\ progress_bar = 100

(* C19: per-file failure isolation.  A file of the corpus that cannot be     *)
(* read is skipped: while the loop runs the result is that of the readable   *)
(* files passed so far, and at the end used_gfx, the usage lists of the used *)
(* names and orphaned_gfx are those of a run over the corpus without the     *)
(* unreadable files, and analysis_complete is emitted.                       *)

Readable(files) == SelectSeq(files, LAMBDA file : file.readable)

\* the result of the loop over code_files on files that can all be read
RunOver(table, files) ==
    LET F[i \in 0..Len(files)] ==
            IF i = 0 THEN NewResults ELSE ScanFile(table, F[i - 1], files[i])
    IN  F[Len(files)]

SameUsages(res, other) ==
    /\ res.used_gfx = other.used_gfx
    /\ \A name \in other.used_gfx :
           /\ name \in DOMAIN res.usage_locations
           /\ res.usage_locations[name] = other.usage_locations[name]

C19_FailureIsolation ==
    /\ pc = "scan" =>
           LET passed == RunOver(gfx_data, Readable(SubSeq(code_files, 1, idx)))
           IN  /\ idx <= Len(code_files)
               /\ SameUsages(results, passed)
               /\ DOMAIN results.usage_locations = passed.used_gfx
    /\ pc \in {"finish", "done"} =>
           LET whole == RunOver(gfx_data, Readable(code_files))
           IN  /\ SameUsages(results, whole)
               /\ results.orphaned_gfx =
                      {name \in UnusedNames(gfx_data, whole) :
                          ReconcilingWith(whole, name) = {}}
    /\ Done => IsComplete(emitted[Len(emitted)])

\* a run is done in which an unreadable file stood before a file with a usage
C19_Witness ==
    /\ Done
    /\ Len(code_files) > 1
    /\ ~code_files[1].readable
    /\ code_files[2].readable
    /\ \E name \in results.used_gfx :
           results.usage_locations[name] = <<code_files[2].path>>

(* C20: snapshot isolation.  The result of a run is the one computed from    *)
(* the definition table as it was when the worker was constructed, whatever  *)
(* the main thread does to gfx_data while the worker runs.                   *)
C20_SnapshotIsolation ==
    Done =>
        LET whole == RunOver(snapshot, Readable(code_files))
        IN  /\ results.used_gfx = whole.used_gfx
            /\ results.orphaned_gfx =
                   {name \in UnusedNames(snapshot, whole) : ReconcilingWith(whole, name) = {}}
            /\ results.missing_definitions = {}

----------------------------------------------------------------------------
(* Claim formulas for a parser used for several files (SpecSession) *)

\* a HOI4GUIParser after __init__ and set_scripted_gui_data
FreshParser(data) ==
    [elements |-> <<>>, parsed_elements |-> {}, window_size |-> DefaultSize,
     parse_errors |-> <<>>, scripted_gui_data |-> data, returned |-> None]

\* a ScriptedGUIParser after __init__
FreshScriptedParser == [scripted_guis |-> <<>>, parse_errors |-> <<>>, returned |-> None]

\* the fields els, errs and ws are those parse_file(file) leaves on a new instance
GuiSameAsFresh(data, file, els, errs, ws) ==
    LET fresh == parse_file(FreshParser(data), file)
    IN  /\ els = fresh.elements
        /\ errs = fresh.parse_errors
        /\ ws = fresh.window_size

ScriptedSameAsFresh(file, guis, errs) ==
    LET fresh == ScriptedGUIParser_parse_file(FreshScriptedParser, file)
    IN  /\ guis = fresh.scripted_guis
        /\ errs = fresh.parse_errors

(* C21: no state across file loads.  Every parse_file call of a parser that  *)
(* has parsed files before leaves the elements, parse_errors and window_size *)
(* (scripted_guis and parse_errors for the ScriptedGUIParser) that the same  *)
(* call leaves on a new instance with the same definitions installed.        *)
C21_NoStateAcrossLoads ==
    [][/\ (UNCHANGED <<scriptedVars, callerVars>> /\ ParseGuiFile) =>
              GuiSameAsFresh(scripted_gui_data', gui_file', elements', parse_errors',
                             window_size')
       /\ (UNCHANGED <<guiVars, callerVars>> /\ ParseScriptedFile) =>
              ScriptedSameAsFresh(scripted_file', scripted_guis', scripted_parse_errors')]_vars

----------------------------------------------------------------------------
(* Claim formulas for the scalar property extractors (SpecProperty) *)

\* the values the text gives to the key in quoted form, and in bare form
QuotedForms(text, key) ==
    {text[i].s : i \in {j \in 1..Len(text) : text[j].k = "quoted" /\ text[j].key = key}}

BareForms(text, key) ==
    {text[i].s : i \in {j \in 1..Len(text) : text[j].k = "bare" /\ text[j].key = key}}

\* the value starts or ends with a quote character
KeepsQuote(value) ==
    value \in {QuotedToken(s) : s \in PropertyValues} \cup {InQuotes(s) : s \in PropertyValues}

AsStated(text, value) ==
    /\ QuotedForms(text, "name") # {} =>
           value # None /\ value[1] \in QuotedForms(text, "name")
    /\ (QuotedForms(text, "name") = {} /\ BareForms(text, "name") # {}) =>
           value # None /\ value[1] \in BareForms(text, "name")
    /\ value # None => ~KeepsQuote(value[1])

(* C22: scalar property extraction.  Both _extract_property methods return   *)
(* the text between the quotes of a quoted form of the key when the text     *)
(* has one, the bare token only when it has none, and never a value that     *)
(* keeps a quote character.                                                  *)
C22_QuotedPreferred ==
    /\ "property" \in called => AsStated(content, property_value)
    /\ "scripted_property" \in called => AsStated(content, scripted_property_value)

----------------------------------------------------------------------------
(* Claim formulas for unclosed blocks (SpecUnclosed) *)

\* the lexeme at i opens a block of one of the names
OpensOneOf(i, names) == content[i].k = "open" /\ content[i].key \in names

\* the brace opened at i is closed at e
ClosedAt(i, e) ==
    /\ i < e
    /\ e <= Len(content)
    /\ content[e] = RB
    /\ Balanced(SubSeq(content, i + 1, e - 1))

Unclosed(i) == \A e \in 1..Len(content) : ~ClosedAt(i, e)

\* the blocks of these names that the text completes before an unclosed one of
\* them opens, and that are not inside another block of these names
Complete(names) ==
    {p \in (1..Len(content)) \X (1..Len(content)) :
        /\ OpensOneOf(p[1], names)
        /\ ClosedAt(p[1], p[2])
        /\ \A u \in 1..p[1] : OpensOneOf(u, names) => ~Unclosed(u)
        /\ \A q \in (1..Len(content)) \X (1..Len(content)) :
               (OpensOneOf(q[1], names) /\ ClosedAt(q[1], q[2])) =>
                   ~(q[1] < p[1] /\ p[1] < q[2])}

\* the n-th pair of a set of pairs, in the order of their first components
Ordered(pairs) ==
    LET F[n \in 0..Cardinality(pairs)] ==
            IF n = 0 THEN <<>>
            ELSE Append(F[n - 1],
                        CHOOSE p \in pairs :
                            Cardinality({q \in pairs : q[1] < p[1]}) = n - 1)
    IN  F[Cardinality(pairs)]

Inside(p) == SubSeq(content, p[1] + 1, p[2] - 1)

\* the blocks named tag that an extractor has to return
TagBlocks ==
    LET found == Ordered(Complete({"tag"}))
    IN  [n \in 1..Len(found) |-> Inside(found[n])]

\* found[n] is the last complete block of its name
LastOfName(found, n) ==
    \A m \in 1..Len(found) :
        content[found[m][1]].key = content[found[n][1]].key => m <= n

DefinitionsAsStated ==
    LET found == Ordered(Complete({"tag", "b"}))
    IN  /\ \A n \in 1..Len(found) :
               LastOfName(found, n) =>
                   \E k \in 1..Len(extracted_definitions) :
                       /\ extracted_definitions[k].name = content[found[n][1]].key
                       /\ extracted_definitions[k].content = Inside(found[n])
        /\ \A k \in 1..Len(extracted_definitions) :
               \E n \in 1..Len(found) :
                   extracted_definitions[k].name = content[found[n][1]].key
        /\ \A k, l \in 1..Len(extracted_definitions) :
               extracted_definitions[k].name = extracted_definitions[l].name => k = l

\* every iteration that finds an opening moves the cursor forward
CursorAdvances ==
    \A start_pos \in 1..(Len(content) + 1) :
        SearchOpen(content, "tag", FALSE, start_pos) # 0 =>
            /\ CursorAfter(content, "tag", FALSE, start_pos) > start_pos
            /\ CursorAfter(content, "tag", FALSE, start_pos) <= Len(content) + 1

(* C23: unbalanced input.  The extractors return the blocks that are         *)
(* complete before the first unclosed block of the name opens, in order and  *)
(* without the blocks nested in a returned one, and nothing for the unclosed *)
(* block or for what follows its opening brace; each iteration of the search *)
(* moves the cursor forward.                                                 *)
C23_UnclosedDropped ==
    /\ CursorAdvances
    /\ "gui" \in called => blocks = TagBlocks
    /\ "scripted" \in called => simple_blocks = TagBlocks
    /\ "definitions" \in called => DefinitionsAsStated

\* tag = { A } tag = { tag = { } : a complete block, then an unclosed one that
\* holds a complete one
C23_Witness ==
    /\ content = <<Open("tag"), Word("A"), RB, Open("tag"), Open("tag"), RB>>
    /\ called = {"gui", "scripted", "definitions"}
    /\ blocks = <<<<Word("A")>>>>
    /\ extracted_definitions = <<[name |-> "tag", content |-> <<Word("A")>>]>>

----------------------------------------------------------------------------
(* Claim formulas for nested containers (SpecNested) *)

\* the index of the brace that closes the block opened at i, 0 when it is not closed
BlockEnd(text, i) ==
    LET ends == {e \in (i + 1)..Len(text) : Depth(SubSeq(text, i + 1, e)) = -1}
    IN  IF ends = {} THEN 0 ELSE CHOOSE e \in ends : \A f \in ends : e <= f

BlockText(text, i) == SubSeq(text, i + 1, BlockEnd(text, i) - 1)

OpensType(text, i, type) == text[i].k = "open" /\ Lower(text[i].key) = Lower(type)

\* the block opened at i stands inside a containerWindowType block
InContainer(text, i) ==
    \E j \in 1..(i - 1) :
        /\ OpensType(text, j, "containerWindowType")
        /\ BlockEnd(text, j) > i

\* the element the block opened at i is parsed to, None for the other blocks
ElementOfBlock(text, i) ==
    IF BlockEnd(text, i) = 0 THEN None
    ELSE IF OpensType(text, i, "containerWindowType")
         THEN _parse_container_window_element(BlockText(text, i))
    ELSE IF ~InContainer(text, i) THEN None
    ELSE IF OpensType(text, i, "iconType") THEN _parse_icon_element(BlockText(text, i))
    ELSE IF OpensType(text, i, "buttonType") THEN _parse_button_element(BlockText(text, i))
    ELSE IF OpensType(text, i, "instantTextBoxType")
         THEN _parse_text_box_element(BlockText(text, i))
    ELSE None

Occurrences(elems, key) ==
    Cardinality({k \in 1..Len(elems) : _get_element_key(elems[k]) = key})

(* C24: recursive container extraction.  After a successful parse_file the   *)
(* key of every containerWindowType block with a name, at any depth, and of  *)
(* every named iconType, buttonType and instantTextBoxType block inside a    *)
(* container is the key of exactly one element of the output.                *)
C24_EveryBlockOnce ==
    Successful =>
        \A i \in 2..Len(gui_file.text) :
            ElementOfBlock(gui_file.text, i) # None =>
                Occurrences(returned[1],
                            _get_element_key(ElementOfBlock(gui_file.text, i)[1])) = 1

----------------------------------------------------------------------------
(* Claim formulas for the merge of triggers and effects (SpecApply) *)

HasTrigger(d, key) == d.triggers # None /\ key \in DOMAIN d.triggers[1]
HasEffect(d, key) == d.effects # None /\ key \in DOMAIN d.effects[1]

\* the definition has one of the keys the merge looks up for the element name
NamesElement(d, name) ==
    \/ HasTrigger(d, Concat(name, "_click_enabled"))
    \/ HasTrigger(d, Concat(name, "_visible"))
    \/ HasEffect(d, Concat(name, "_click"))

IsLeaf(element) == element.element_type \in {"buttonType", "iconType", "instantTextBoxType"}

\* what the claim says of one merged button, icon or text box
LeafAsStated(data, element) ==
    LET hits == {i \in 1..Len(data) : NamesElement(data[i], element.name)}
        enabled == Concat(element.name, "_click_enabled")
        visible == Concat(element.name, "_visible")
        click == Concat(element.name, "_click")
    IN  /\ hits = {} =>
               /\ element.visible_condition = None
               /\ element.click_effect = None
               /\ element.scripted_data = None
        /\ hits # {} =>
               LET d == data[Least(hits)]
               IN  /\ element.scripted_data = Some(_create_scripted_data_dict(d))
                   /\ IF HasTrigger(d, enabled)
                      THEN element.visible_condition = Some(d.triggers[1][enabled])
                      ELSE IF HasTrigger(d, visible)
                      THEN element.visible_condition = Some(d.triggers[1][visible])
                      ELSE element.click_effect = Some(d.effects[1][click])
        /\ ~(element.visible_condition # None /\ element.click_effect # None)
        /\ element.is_dynamic <=>
               (element.visible_condition # None \/ element.click_effect # None)

LeavesAsStated(data, elems) ==
    \A k \in 1..Len(elems) : IsLeaf(elems[k]) => LeafAsStated(data, elems[k])

(* C25: merge of buttons, icons and text boxes.  A parse leaves every such   *)
(* element with the data of the first installed definition, in index order,  *)
(* that has a key for its name: the trigger name_click_enabled, else the     *)
(* trigger name_visible, else the effect name_click.  At most one of         *)
(* visible_condition and click_effect is set, is_dynamic is true exactly     *)
(* when one is, and scripted_data is that of the matching definition.        *)
C25_FirstMatchOneField ==
    [][(UNCHANGED scripted_gui_data /\ ParseFile) =>
           (returned' # None /\ LeavesAsStated(scripted_gui_data, returned'[1]))]_vars

\* the first installed definition has a trigger and an effect for ok_button and
\* a second one names the button too: the trigger of the first was merged
C25_Witness ==
    /\ Len(scripted_gui_data) = 2
    /\ scripted_gui_data[1].name = "l5"
    /\ NamesElement(scripted_gui_data[2], "ok_button")
    /\ returned # None
    /\ \E k \in 1..Len(returned[1]) :
           /\ returned[1][k].element_type = "buttonType"
           /\ returned[1][k].name = "ok_button"
           /\ returned[1][k].visible_condition = Some(<<HasFlag>>)
           /\ returned[1][k].click_effect = None
           /\ returned[1][k].is_dynamic
           /\ returned[1][k].scripted_data = Some(_create_scripted_data_dict(scripted_gui_data[1]))

----------------------------------------------------------------------------
(* Claim formulas for the duplicate record of the main window (SpecAnalysis) *)

\* the path of the file once per spriteType block of that name in it
OwnDefinitions(file, name) ==
    LET sprites == IF file.readable THEN SpritesOfLines(file.lines) ELSE <<>>
        mine == SelectSeq(sprites, LAMBDA sprite : sprite.name = name)
    IN  [i \in 1..Len(mine) |-> file.path]

\* the file of every definition of the name, in the order of a scan of the folder
RECURSIVE DefinitionFiles(_, _)
DefinitionFiles(gfx_files, name) ==
    IF gfx_files = <<>> THEN <<>>
    ELSE OwnDefinitions(Head(gfx_files), name) \o DefinitionFiles(Tail(gfx_files), name)

\* the record the claim describes for the folder as it was last scanned
DuplicatesAsStated ==
    LET defs == [name \in Names |-> DefinitionFiles(GfxFilesOf(mod_files), name)]
        dup == {name \in Names : Len(defs[name]) > 1}
    IN  [name \in dup |-> defs[name]]

\* scan_gfx_files has run and found definitions
Scanned == gfx_data # EmptyDict

(* C26: duplicate bookkeeping of the main window.  Once the folder has been  *)
(* scanned, after any further scans and completed analyses,                  *)
(* duplicate_definitions maps exactly the names with more than one           *)
(* spriteType block in the folder, each to the files of its definitions,     *)
(* one entry per definition.                                                 *)
C26_DuplicatesOfLastScan ==
    Scanned => duplicate_definitions = DuplicatesAsStated

\* the first scan alone records the duplicates as stated
C26_FirstScanAsStated ==
    [][(gfx_data = EmptyDict /\ duplicate_definitions = EmptyDict /\ gfx_data' # gfx_data)
           => duplicate_definitions' = DuplicatesAsStated]_vars

----------------------------------------------------------------------------
(* Claim formulas for the frame of the merge (SpecApply) *)

\* self.elements when parse_file reaches the call of _apply_scripted_gui_data
Unmerged(self, file) ==
    LET text == Unlines(_remove_comments(file.text))
        gui_content == RootBlock(text, "guiTypes")
    IN  IF file.status # "ok" \/ IsBlank(file.text) \/ gui_content = None THEN <<>>
        ELSE _parse_elements([elements |-> <<>>, parsed_elements |-> self.parsed_elements,
                              window_size |-> self.window_size], gui_content[1]).elements

\* the fields the merge may not write
SameIdentity(e, f) ==
    /\ e.name = f.name
    /\ e.element_type = f.element_type
    /\ e.position = f.position
    /\ e.size = f.size
    /\ e.sprite_type = f.sprite_type

FrameAsStated(data, before, after) ==
    /\ Len(after) = Len(before)
    /\ \A k \in 1..Len(before) :
           /\ SameIdentity(before[k], after[k])
           /\ before[k].element_type \in TopTypes => after[k] = before[k]
    /\ data = <<>> => after = before

(* C27: frame of the merge.  The list a parse returns has the elements the   *)
(* parse found, in the same order and with the same name, element_type,      *)
(* position, size and sprite_type; elements of type windowType,              *)
(* checkboxType, scrollbarType, gridBoxType, listboxType and editboxType     *)
(* are as parsed, and with no definitions installed every element is.        *)
C27_MergeFrame ==
    [][(UNCHANGED scripted_gui_data /\ ParseFile) =>
           (/\ returned' # None
            /\ FrameAsStated(scripted_gui_data, Unmerged(Self, gui_file), returned'[1]))]_vars

\* a definition with the trigger ok_button_visible is installed and the parse
\* returned a checkbox named ok_button as parsed, next to a merged text box
C27_Witness ==
    /\ \E i \in 1..Len(scripted_gui_data) : HasTrigger(scripted_gui_data[i], "ok_button_visible")
    /\ returned # None
    /\ \E k \in 1..Len(returned[1]) :
           /\ returned[1][k].element_type = "checkboxType"
           /\ returned[1][k].name = "ok_button"
           /\ returned[1][k].visible_condition = None
           /\ ~returned[1][k].is_dynamic
    /\ \E k \in 1..Len(returned[1]) :
           /\ returned[1][k].element_type = "instantTextBoxType"
           /\ returned[1][k].is_dynamic

----------------------------------------------------------------------------
(* Claim formulas for the usage lists of the result (SpecAnalysis) *)

\* the result lists a file other than the recorded definition file for the name
HasForeignUsage(name) ==
    /\ name \in DOMAIN results.usage_locations
    /\ results.usage_locations[name] # <<>>
    /\ \E k \in 1..Len(results.usage_locations[name]) :
           results.usage_locations[name][k] # gfx_data[name].file_source

(* C28: usage of the names that are not orphaned.  When a run of the worker  *)
(* is done, every defined name that is not in the result's orphaned_gfx has  *)
(* a non-empty usage_locations entry with a file other than its definition   *)
(* file, also when the name was reconciled with a used name.                 *)
C28_NonOrphansHaveUsage ==
    Done =>
        \A name \in DOMAIN gfx_data :
            name \notin results.orphaned_gfx => HasForeignUsage(name)

\* the names the scan of the code files itself found do have such an entry
C28_UsedHaveUsage ==
    Done => \A name \in results.used_gfx : HasForeignUsage(name)

----------------------------------------------------------------------------
(* Claim formulas for the load sequencing of the preview widget (SpecWidget) *)

\* the elements and the size a parse of the file gives with these definitions
ShownAsStated(data, file, els, ws) ==
    LET fresh == parse_file(FreshParser(data), file)
    IN  els = fresh.returned[1] /\ ws = fresh.window_size

(* C29: load sequencing of the preview widget.  After any sequence of        *)
(* load_gui_file and load_scripted_gui_file calls, once a GUI file has been  *)
(* loaded, the canvas shows the elements and the size that parsing the file  *)
(* named by current_file_path gives, merged with the definitions of the      *)
(* most recent successful scripted-GUI load.                                 *)
C29_CanvasShowsCurrentFile ==
    current_file_path # None =>
        ShownAsStated(scripted_gui_data, current_file_path[1], canvas_elements,
                      canvas_window_size)

\* the second half of the sentence: a scripted load that returns definitions
\* while a GUI file is loaded parses that file again with the new definitions
C29_ScriptedLoadReparses ==
    [][(LoadScriptedGuiFile /\ current_file_path # None /\ scripted_returned'[1] # <<>>) =>
           /\ gui_file' = current_file_path[1]
           /\ scripted_gui_data' = set_scripted_gui_data(scripted_returned'[1])
           /\ returned' = parse_file([Self EXCEPT !.scripted_gui_data = scripted_gui_data'],
                                     current_file_path[1]).returned]_vars

\* the canvas shows the elements of the current file whenever its last parse found some
C29_ElementsOfLastGoodParse ==
    (current_file_path # None /\ returned # None /\ returned[1] # <<>>) =>
        canvas_elements = returned[1]

----------------------------------------------------------------------------
(* Claim formulas for the declarations of a container block (SpecOwn) *)

\* the lexemes of the text at brace depth 0
RECURSIVE DirectFrom(_, _, _)
DirectFrom(text, k, depth) ==
    IF k > Len(text) THEN <<>>
    ELSE IF text[k].k \in {"open", "lb"} THEN DirectFrom(text, k + 1, depth + 1)
    ELSE IF text[k].k = "rb" THEN DirectFrom(text, k + 1, IF depth > 0 THEN depth - 1 ELSE 0)
    ELSE (IF depth = 0 THEN <<text[k]>> ELSE <<>>) \o DirectFrom(text, k + 1, depth)

Direct(text) == DirectFrom(text, 1, 0)

\* the element has the name, position and size the block declares itself
OwnAsStated(text, element) ==
    LET want == _parse_container_window_element(Direct(text))
    IN  IF want = None THEN element = None
        ELSE /\ element # None
             /\ element[1].name = want[1].name
             /\ element[1].position = want[1].position
             /\ element[1].size = want[1].size

(* C30: declarations of a container.  The element produced for the content  *)
(* of a containerWindowType block has the name, position and size declared   *)
(* at brace depth 0 of the block, never those of a nested child block: also  *)
(* when the child comes first, when the child's value is quoted and the      *)
(* container's is not, and when the container declares none.                 *)
C30_OwnDeclarations ==
    "container" \in called => OwnAsStated(content, container_element)

\* a block whose own declarations are complete and come before every child
\* block does get its own name, position and size
C30_OwnFirstAndComplete ==
    ("container" \in called /\ Len(content) >= 3 /\ content[1].k = "quoted"
         /\ content[2].k = "pos" /\ content[3].k = "size") =>
        OwnAsStated(content, container_element)

====
